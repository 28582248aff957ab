-------------------------- MODULE ConnectionsProofs --------------------------
(***************************************************************************)
(* Theorems about Connections, for all sessions, clients and numbers of    *)
(* revocations at work.                                                    *)
(***************************************************************************)
EXTENDS Connections, TLAPS

(* While a session is being revoked the cache has no current entry of it,  *)
(* and who validates it is late.                                           *)
LateWhenRevoked ==
    \A i \in Ids : Revoking(i) =>
        /\ sessionsCache[i] # "current"
        /\ \A c \in Clients : shake[c] # None /\ shake[c].id = i => shake[c].late

(* What is current in the cache has a row, and so has a session that was   *)
(* found and not late.                                                     *)
Present ==
    /\ \A i \in Ids : sessionsCache[i] = "current" => i \in row
    /\ \A c \in Clients : shake[c] # None /\ ~shake[c].late /\ shake[c].pc # "findUnique"
                              => shake[c].id \in row

(* When a revocation has come to the deletion, only late sockets are left. *)
Told ==
    \A t \in Tasks : revocation[t] # None /\ revocation[t].pc = "delete" =>
        \A c \in Clients : connections[c] # None /\ connections[c].id = revocation[t].id
                               => connections[c].late

(* Who is connecting is not in the table, and open unless he closed.       *)
Connecting ==
    \A c \in Clients : shake[c] # None =>
        /\ connections[c] = None
        /\ shake[c].socket /\ ~shake[c].cut => c \in open

(* Of two revocations of a session each knows, as it were, of the other.   *)
Twins ==
    \A s, t \in Tasks :
        s # t /\ revocation[s] # None /\ revocation[t] # None /\ revocation[s].id = revocation[t].id
            => revocation[t].twice

(* A row that is to be deleted is there, or another revocation was.        *)
Deleted ==
    \A t \in Tasks : revocation[t] # None /\ revocation[t].pc = "delete"
                         => revocation[t].id \in row \/ revocation[t].twice

IInv ==
    /\ TypeOK
    /\ LateWhenRevoked /\ Present /\ Told /\ RevokedSessionHasNoConnection
    /\ Connecting /\ ForgottenWhenClosed
    /\ Twins /\ Deleted

USE DEF Shake, Connection, Revocation

-----------------------------------------------------------------------------
(* The steps.                                                              *)

(* The invariant holds at the start.                                       *)
LEMMA InitIInv == ASSUME ConnectionsAssumption, Init PROVE IInv
BY DEF ConnectionsAssumption, Init, IInv, TypeOK, LateWhenRevoked, Present, Told,
       RevokedSessionHasNoConnection, Connecting, ForgottenWhenClosed, Twins, Deleted, Revoking

(* A revocation that begins: the validations of the session become late,   *)
(* and at most the one that began it ends.                                 *)
LEMMA RevokeIInv ==
    ASSUME ConnectionsAssumption, IInv, NEW i \in Ids, NEW awaited \in BOOLEAN, NEW shakes,
           Revoke(i, awaited, shakes),
           shakes \in [Clients -> Shake \cup {None}],
           \A c \in Clients : shakes[c] # None => shake[c] # None /\ shakes[c] = LateShakes(i)[c],
           \A c \in Clients : c \in open /\ c \notin open' => shakes[c] = None /\ connections[c] = None,
           open' \subseteq open,
           UNCHANGED <<row, connections, alive>>
    PROVE  IInv'
<1> USE DEF IInv
<1>1. PICK t \in Tasks :
          /\ revocation[t] = None
          /\ revocation' = [s \in Tasks |->
                 IF s = t THEN [id |-> i, awaited |-> awaited, twice |-> Revoking(i), pc |-> "count"]
                 ELSE IF revocation[s] # None /\ revocation[s].id = i
                      THEN [revocation[s] EXCEPT !.twice = TRUE] ELSE revocation[s]]
  BY DEF Revoke
<1>2. /\ sessionsCache' = [sessionsCache EXCEPT ![i] = None]
      /\ shake' = shakes
  BY DEF Revoke
<1>3. TypeOK'
  <2>1. Revoking(i) \in BOOLEAN
    BY DEF Revoking
  <2>2. \A s \in Tasks : revocation'[s] \in Revocation \cup {None}
    <3> SUFFICES ASSUME NEW s \in Tasks PROVE revocation'[s] \in Revocation \cup {None}
      OBVIOUS
    <3>1. CASE s = t
      BY <1>1, <2>1, <3>1
    <3>2. CASE s # t
      BY <1>1, <3>2 DEF TypeOK
    <3> QED
      BY <3>1, <3>2
  <2>3. revocation' \in [Tasks -> Revocation \cup {None}]
    BY <1>1, <2>2, Zenon
  <2> QED
    BY <1>2, <2>3 DEF TypeOK
<1>4. \A j \in Ids : Revoking(j)' => j = i \/ Revoking(j)
  BY <1>1 DEF Revoking
<1>5. \A c \in Clients : shake'[c] # None =>
          /\ shake[c] # None /\ shake'[c].id = shake[c].id
          /\ shake'[c].pc = shake[c].pc /\ shake'[c].socket = shake[c].socket
          /\ shake'[c].cut = shake[c].cut
          /\ shake[c].late \/ shake[c].id = i => shake'[c].late
  <2> SUFFICES ASSUME NEW c \in Clients, shake'[c] # None
               PROVE  /\ shake[c] # None /\ shake'[c].id = shake[c].id
                      /\ shake'[c].pc = shake[c].pc /\ shake'[c].socket = shake[c].socket
                      /\ shake'[c].cut = shake[c].cut
                      /\ shake[c].late \/ shake[c].id = i => shake'[c].late
    OBVIOUS
  <2>1. shake[c] # None /\ shake'[c] = LateShakes(i)[c]
    BY <1>2
  <2>2. shake[c] \in Shake
    BY <2>1 DEF TypeOK
  <2>3. CASE shake[c].id = i
    BY <2>1, <2>2, <2>3 DEF LateShakes
  <2>4. CASE shake[c].id # i
    BY <2>1, <2>2, <2>4 DEF LateShakes
  <2> QED
    BY <2>3, <2>4
<1>6. LateWhenRevoked'
  BY <1>2, <1>4, <1>5 DEF LateWhenRevoked, TypeOK, ConnectionsAssumption
<1>7. Present'
  BY <1>2, <1>5 DEF Present, TypeOK, ConnectionsAssumption
<1>8. \A s \in Tasks : revocation'[s] # None /\ s # t =>
          /\ revocation[s] # None /\ revocation'[s].id = revocation[s].id
          /\ revocation'[s].pc = revocation[s].pc
          /\ revocation[s].twice \/ revocation[s].id = i => revocation'[s].twice
  BY <1>1 DEF TypeOK
<1>9. revocation'[t].pc = "count" /\ revocation'[t].id = i /\ revocation'[t].twice = Revoking(i)
  BY <1>1
<1>10. Told'
  BY <1>8, <1>9 DEF Told
<1>11. RevokedSessionHasNoConnection' /\ ForgottenWhenClosed' /\ Connecting'
  BY <1>2, <1>5 DEF RevokedSessionHasNoConnection, ForgottenWhenClosed, Connecting
<1>12. Twins'
  <2> SUFFICES ASSUME NEW s \in Tasks, NEW r \in Tasks, s # r, revocation'[s] # None,
                      revocation'[r] # None, revocation'[s].id = revocation'[r].id
               PROVE  revocation'[r].twice
    BY DEF Twins
  <2>1. CASE r = t
    <3>1. revocation[s] # None /\ revocation[s].id = i
      BY <1>8, <1>9, <2>1
    <3>2. Revoking(i)
      BY <3>1 DEF Revoking
    <3> QED
      BY <1>9, <2>1, <3>2
  <2>2. CASE r # t
    <3>1. CASE s = t
      BY <1>8, <1>9, <2>2, <3>1
    <3>2. CASE s # t
      BY <1>8, <2>2, <3>2 DEF Twins
    <3> QED
      BY <3>1, <3>2
  <2> QED
    BY <2>1, <2>2
<1>13. Deleted'
  BY <1>8, <1>9 DEF Deleted
<1> QED
  BY <1>3, <1>6, <1>7, <1>10, <1>11, <1>12, <1>13

(* What the cache may become while c is validated.                         *)
CacheSound ==
    /\ sessionsCache' \in [Ids -> {"current", "late"} \cup {None}]
    /\ \A i \in Ids : sessionsCache'[i] = "current" => i \in row /\ ~Revoking(i)

(* A validation goes on to its next await.                                 *)
LEMMA MoveIInv ==
    ASSUME ConnectionsAssumption, IInv, NEW c \in Clients, NEW new \in Shake, CacheSound,
           shake' = [shake EXCEPT ![c] = new],
           connections[c] = None,
           Revoking(new.id) => new.late,
           ~new.late /\ new.pc # "findUnique" => new.id \in row,
           new.socket /\ ~new.cut => c \in open',
           open \subseteq open', open' \subseteq Clients,
           UNCHANGED <<row, connections, revocation, alive>>
    PROVE  IInv'
<1> USE DEF IInv
<1>1. TypeOK'
  BY DEF TypeOK, CacheSound
<1>2. \A d \in Clients : shake'[d] = IF d = c THEN new ELSE shake[d]
  BY DEF TypeOK
<1>3. \A i \in Ids : Revoking(i)' <=> Revoking(i)
  BY DEF Revoking
<1>4. LateWhenRevoked'
  BY <1>2, <1>3 DEF LateWhenRevoked, CacheSound
<1>5. Present'
  BY <1>2 DEF Present, CacheSound
<1>6. Connecting' /\ ForgottenWhenClosed' /\ RevokedSessionHasNoConnection'
  BY <1>2 DEF Connecting, ForgottenWhenClosed, RevokedSessionHasNoConnection
<1>7. Told' /\ Twins' /\ Deleted'
  BY DEF Told, Twins, Deleted
<1> QED
  BY <1>1, <1>4, <1>5, <1>6, <1>7

(* A validation ends and its socket, if it is one, gets into the table.    *)
LEMMA RegisterIInv ==
    ASSUME ConnectionsAssumption, IInv, NEW c \in Clients, NEW cur \in Shake, CacheSound,
           NEW i \in {cur.id, Guest},
           shake' = [shake EXCEPT ![c] = None],
           connections' = Registered(c, cur, i),
           connections[c] = None,
           Revoking(cur.id) => cur.late,
           ~cur.late /\ i # Guest => i \in row,
           cur.socket /\ ~cur.cut => c \in open',
           open \subseteq open', open' \subseteq Clients,
           UNCHANGED <<row, revocation, alive>>
    PROVE  IInv'
<1> USE DEF IInv
<1>1. \A d \in Clients : d # c => connections'[d] = connections[d]
  BY DEF Registered, TypeOK
<1>2. connections'[c] # None =>
          /\ connections'[c].id = i /\ connections'[c].late = cur.late
          /\ connections'[c].cut = cur.cut /\ cur.socket
  BY DEF Registered, TypeOK
<1>3. connections' \in [Clients -> Connection \cup {None}]
  <2>1. [id |-> i, late |-> cur.late, cut |-> cur.cut] \in Connection
    OBVIOUS
  <2> QED
    BY <2>1 DEF Registered, TypeOK
<1>4. \A d \in Clients : shake'[d] = IF d = c THEN None ELSE shake[d]
  BY DEF TypeOK
<1>5. TypeOK'
  BY <1>3 DEF TypeOK, CacheSound
<1>6. \A j \in Ids : Revoking(j)' <=> Revoking(j)
  BY DEF Revoking
<1>7. LateWhenRevoked'
  BY <1>4, <1>6 DEF LateWhenRevoked, CacheSound
<1>8. Present'
  BY <1>4 DEF Present, CacheSound
<1>9. Connecting'
  BY <1>1, <1>4 DEF Connecting
<1>10. ForgottenWhenClosed'
  BY <1>1, <1>2 DEF ForgottenWhenClosed
<1>11. RevokedSessionHasNoConnection'
  BY <1>1, <1>2 DEF RevokedSessionHasNoConnection, ConnectionsAssumption
<1>12. Told'
  <2> SUFFICES ASSUME NEW t \in Tasks, revocation[t] # None, revocation[t].pc = "delete",
                      NEW d \in Clients, connections'[d] # None,
                      connections'[d].id = revocation[t].id
               PROVE  connections'[d].late
    BY DEF Told
  <2>1. CASE d = c
    <3>1. i = revocation[t].id /\ revocation[t].id \in Ids
      BY <1>2, <2>1 DEF TypeOK
    <3>2. i = cur.id
      BY <3>1 DEF ConnectionsAssumption
    <3>3. Revoking(cur.id)
      BY <3>1, <3>2 DEF Revoking
    <3> QED
      BY <1>2, <2>1, <3>3
  <2>2. CASE d # c
    BY <1>1, <2>2 DEF Told
  <2> QED
    BY <2>1, <2>2
<1>13. Twins' /\ Deleted'
  BY DEF Twins, Deleted
<1> QED
  BY <1>5, <1>7, <1>8, <1>9, <1>10, <1>11, <1>12, <1>13

(* The cache is sound as it is.                                            *)
LEMMA CacheIsSound ==
    ASSUME IInv, sessionsCache' = sessionsCache
    PROVE  CacheSound
BY DEF IInv, CacheSound, TypeOK, Present, LateWhenRevoked

(* LateShakes, also without the one that ends, are shakes.                 *)
LEMMA LateShakesType ==
    ASSUME IInv, NEW i \in Ids, NEW c \in Clients
    PROVE  /\ LateShakes(i) \in [Clients -> Shake \cup {None}]
           /\ [LateShakes(i) EXCEPT ![c] = None] \in [Clients -> Shake \cup {None}]
           /\ \A d \in Clients :
                 /\ LateShakes(i)[d] # None => shake[d] # None
                 /\ [LateShakes(i) EXCEPT ![c] = None][d] # None =>
                        shake[d] # None /\ [LateShakes(i) EXCEPT ![c] = None][d] = LateShakes(i)[d]
           /\ [LateShakes(i) EXCEPT ![c] = None][c] = None
<1>1. \A d \in Clients : LateShakes(i)[d] \in Shake \cup {None}
  <2> SUFFICES ASSUME NEW d \in Clients PROVE LateShakes(i)[d] \in Shake \cup {None}
    OBVIOUS
  <2>1. CASE shake[d] # None /\ shake[d].id = i
    BY <2>1 DEF LateShakes, IInv, TypeOK
  <2>2. CASE ~(shake[d] # None /\ shake[d].id = i)
    BY <2>2 DEF LateShakes, IInv, TypeOK
  <2> QED
    BY <2>1, <2>2
<1>2. LateShakes(i) \in [Clients -> Shake \cup {None}]
  BY <1>1 DEF LateShakes
<1>3. \A d \in Clients : LateShakes(i)[d] # None => shake[d] # None
  BY DEF LateShakes
<1> QED
  BY <1>2, <1>3

(* An expired session: the validation ends, and a revocation begins.       *)
LEMMA ExpiredIInv ==
    ASSUME ConnectionsAssumption, IInv, NEW c \in Clients, NEW i \in Ids,
           shake[c] # None,
           Revoke(i, FALSE, [LateShakes(i) EXCEPT ![c] = None]),
           open' = open \ {c},
           UNCHANGED <<row, connections, alive>>
    PROVE  IInv'
<1> DEFINE shakes == [LateShakes(i) EXCEPT ![c] = None]
<1>1. connections[c] = None
  BY DEF IInv, Connecting
<1>2. /\ shakes \in [Clients -> Shake \cup {None}]
      /\ shakes[c] = None
      /\ \A d \in Clients : shakes[d] # None => shake[d] # None /\ shakes[d] = LateShakes(i)[d]
  BY LateShakesType
<1>3. Revoke(i, FALSE, shakes)
  OBVIOUS
<1> HIDE DEF shakes
<1>4. \A d \in Clients : d \in open /\ d \notin open' => shakes[d] = None /\ connections[d] = None
  BY <1>1, <1>2
<1>5. open' \subseteq open /\ FALSE \in BOOLEAN
  OBVIOUS
<1> HIDE DEF Shake
<1> QED
  BY <1>2, <1>3, <1>4, <1>5, RevokeIInv

(* A revocation that is asked for, or begins before the first await.       *)
LEMMA LogoutIInv ==
    ASSUME ConnectionsAssumption, IInv, NEW i \in Ids, NEW awaited \in BOOLEAN,
           Revoke(i, awaited, LateShakes(i)),
           open' = open, UNCHANGED <<row, connections, alive>>
    PROVE  IInv'
<1>1. LateShakes(i) \in [Clients -> Shake \cup {None}]
  <2>1. CASE Clients = {}
    BY <2>1 DEF LateShakes
  <2>2. CASE Clients # {}
    BY <2>2, LateShakesType
  <2> QED
    BY <2>1, <2>2
<1>2. \A d \in Clients : LateShakes(i)[d] # None => shake[d] # None
  BY LateShakesType
<1> QED
  BY <1>1, <1>2, RevokeIInv

(* A validation at another await, or late.                                 *)
LEMMA ShakeMoves ==
    ASSUME NEW cur \in Shake, NEW pc \in {"findUnique", "findOne", "update"}
    PROVE  \E new \in Shake :
               /\ new = [cur EXCEPT !.pc = pc] /\ new.id = cur.id /\ new.pc = pc
               /\ new.late <=> cur.late
               /\ new.socket <=> cur.socket
               /\ new.cut <=> cur.cut
<1> WITNESS [cur EXCEPT !.pc = pc] \in Shake
<1> QED
  OBVIOUS

(* The same, for who is late.                                              *)
LEMMA ShakeIsLate ==
    ASSUME NEW cur \in Shake
    PROVE  \E new \in Shake :
               /\ new = [cur EXCEPT !.late = TRUE] /\ new.id = cur.id
               /\ new.late
               /\ new.socket <=> cur.socket
               /\ new.cut <=> cur.cut
<1> WITNESS [cur EXCEPT !.late = TRUE] \in Shake
<1> QED
  OBVIOUS

(* The same, for whose socket closes.                                      *)
LEMMA ShakeIsCut ==
    ASSUME NEW cur \in Shake
    PROVE  \E new \in Shake :
               /\ new = [cur EXCEPT !.cut = TRUE] /\ new.id = cur.id /\ new.pc = cur.pc
               /\ new.late <=> cur.late
               /\ new.socket <=> cur.socket
               /\ new.cut
<1> WITNESS [cur EXCEPT !.cut = TRUE] \in Shake
<1> QED
  OBVIOUS

(* The check of a session that was found, by who is late.                  *)
LEMMA CheckedIInv ==
    ASSUME ConnectionsAssumption, IInv, NEW c \in Clients, NEW cur \in Shake,
           shake[c] # None, cur.late, cur.socket /\ ~cur.cut => c \in open,
           Checked(c, cur), UNCHANGED <<row, alive>>
    PROVE  IInv'
<1>1. connections[c] = None /\ open \subseteq Clients
  BY DEF IInv, Connecting, TypeOK
<1>2. CASE /\ shake' = [shake EXCEPT ![c] = None]
           /\ connections' = Registered(c, cur, cur.id)
           /\ UNCHANGED <<sessionsCache, open, revocation>>
  <2>1. CacheSound
    BY <1>2, CacheIsSound
  <2> HIDE DEF Shake
  <2> QED
    BY <1>1, <1>2, <2>1, RegisterIInv
<1>3. CASE /\ shake' = [shake EXCEPT ![c] = [cur EXCEPT !.pc = "update"]]
           /\ UNCHANGED <<sessionsCache, open, connections, revocation>>
  <2>1. CacheSound
    BY <1>3, CacheIsSound
  <2>2. PICK new \in Shake :
           /\ new = [cur EXCEPT !.pc = "update"] /\ new.id = cur.id /\ new.pc = "update"
           /\ new.late <=> cur.late
           /\ new.socket <=> cur.socket
           /\ new.cut <=> cur.cut
    <3> HIDE DEF Shake
    <3>1. "update" \in {"findUnique", "findOne", "update"} /\ "findOne" \in {"findUnique", "findOne", "update"}
      OBVIOUS
    <3> QED
      BY <3>1, ShakeMoves
  <2>3. shake' = [shake EXCEPT ![c] = new]
    BY <1>3, <2>2
  <2> HIDE DEF Shake
  <2> QED
    BY <1>1, <1>3, <2>1, <2>2, <2>3, MoveIInv
<1>4. CASE /\ Revoke(cur.id, FALSE, [LateShakes(cur.id) EXCEPT ![c] = None])
           /\ open' = open \ {c}
           /\ UNCHANGED connections
  <2>1. PICK i \in Ids : i = cur.id
    OBVIOUS
  <2>2. Revoke(i, FALSE, [LateShakes(i) EXCEPT ![c] = None])
    BY <1>4, <2>1
  <2> QED
    BY <1>4, <2>2, ExpiredIInv
<1> QED
  BY <1>2, <1>3, <1>4 DEF Checked

(* A socket or a request comes, with the token of a session.               *)
LEMMA HandleConnectionIInv ==
    ASSUME ConnectionsAssumption, IInv, NEW c \in Clients, NEW i \in Ids, NEW socket \in BOOLEAN,
           HandleConnection(c, i, socket)
    PROVE  IInv'
<1> DEFINE cur == [id |-> i, socket |-> socket, late |-> Revoking(i) \/ sessionsCache[i] = "late",
                   cut |-> FALSE, pc |-> "findUnique"]
<1>1. /\ cur \in Shake /\ cur.id = i /\ cur.pc = "findUnique"
      /\ cur.socket = socket /\ cur.cut = FALSE
      /\ Revoking(i) => cur.late
      /\ sessionsCache[i] = "late" => cur.late
  BY DEF Revoking
<1>2. shake[c] = None /\ connections[c] = None /\ UNCHANGED <<row, alive>>
  BY DEF HandleConnection, Unused
<1>3. ~cur.late /\ sessionsCache[i] # None => i \in row
  BY <1>1 DEF IInv, TypeOK, Present
<1>4. CASE /\ sessionsCache[i] = None
           /\ shake' = [shake EXCEPT ![c] = cur]
           /\ open' = IF socket THEN open \cup {c} ELSE open
           /\ UNCHANGED <<sessionsCache, connections, revocation>>
  <2>1. CacheSound
    BY <1>4, CacheIsSound
  <2>2. /\ open \subseteq open' /\ open' \subseteq Clients
        /\ cur.socket /\ ~cur.cut => c \in open'
    BY <1>1, <1>4 DEF IInv, TypeOK
  <2> HIDE DEF Shake, cur
  <2> QED
    BY <1>1, <1>2, <1>4, <2>1, <2>2, MoveIInv
<1>5. CASE /\ sessionsCache[i] # None
           /\ shake' = [shake EXCEPT ![c] = [cur EXCEPT !.pc = "update"]]
           /\ open' = IF socket THEN open \cup {c} ELSE open
           /\ UNCHANGED <<sessionsCache, connections, revocation>>
  <2>1. CacheSound
    BY <1>5, CacheIsSound
  <2>2. PICK new \in Shake :
           /\ new = [cur EXCEPT !.pc = "update"] /\ new.id = cur.id /\ new.pc = "update"
           /\ new.late <=> cur.late
           /\ new.socket <=> cur.socket
           /\ new.cut <=> cur.cut
    <3> HIDE DEF Shake, cur
    <3>1. "update" \in {"findUnique", "findOne", "update"} /\ "findOne" \in {"findUnique", "findOne", "update"}
      OBVIOUS
    <3> QED
      BY <1>1, <3>1, ShakeMoves
  <2>3. /\ open \subseteq open' /\ open' \subseteq Clients
        /\ new.socket /\ ~new.cut => c \in open'
    BY <1>5, <2>2 DEF IInv, TypeOK
  <2>4. shake' = [shake EXCEPT ![c] = new]
    BY <1>5, <2>2
  <2>5. /\ Revoking(new.id) => new.late
        /\ ~new.late /\ new.pc # "findUnique" => new.id \in row
    BY <1>1, <1>3, <1>5, <2>2
  <2> HIDE DEF Shake, cur
  <2> QED
    BY <1>2, <1>5, <2>1, <2>3, <2>4, <2>5, MoveIInv
<1>6. CASE /\ sessionsCache[i] # None
           /\ open' = IF socket THEN open \cup {c} ELSE open
           /\ connections' = Registered(c, cur, i)
           /\ UNCHANGED <<shake, sessionsCache, revocation>>
  <2>1. CacheSound
    BY <1>6, CacheIsSound
  <2>2. /\ open \subseteq open' /\ open' \subseteq Clients
        /\ cur.socket /\ ~cur.cut => c \in open'
    BY <1>1, <1>6 DEF IInv, TypeOK
  <2>3. shake' = [shake EXCEPT ![c] = None]
    BY <1>2, <1>6 DEF IInv, TypeOK
  <2>4. i \in {cur.id, Guest} /\ (~cur.late /\ i # Guest => i \in row)
        /\ (Revoking(cur.id) => cur.late)
    BY <1>1, <1>3, <1>6
  <2> HIDE DEF Shake, cur
  <2> QED
    BY <1>1, <1>2, <1>6, <2>1, <2>2, <2>3, <2>4, RegisterIInv
<1>7. CASE Revoke(i, FALSE, LateShakes(i)) /\ UNCHANGED <<open, connections>>
  <2>1. FALSE \in BOOLEAN
    OBVIOUS
  <2> QED
    BY <1>2, <1>7, <2>1, LogoutIInv
<1> QED
  BY <1>4, <1>5, <1>6, <1>7 DEF HandleConnection

(* The row was read.                                                       *)
LEMMA FindUniqueIInv ==
    ASSUME ConnectionsAssumption, IInv, NEW c \in Clients, FindUnique(c)
    PROVE  IInv'
<1>1. PICK cur \in Shake : cur = shake[c]
  BY DEF FindUnique, IInv, TypeOK
<1>2. /\ shake[c] # None /\ cur.pc = "findUnique" /\ UNCHANGED <<row, alive>>
  BY <1>1 DEF FindUnique
<1>3. /\ connections[c] = None /\ open \subseteq Clients
      /\ Revoking(cur.id) => cur.late
      /\ cur.socket /\ ~cur.cut => c \in open
  BY <1>1, <1>2 DEF IInv, Connecting, TypeOK, LateWhenRevoked
<1>4. CASE /\ cur.id \in row
           /\ shake' = [shake EXCEPT ![c].pc = "findOne"]
           /\ UNCHANGED <<open, connections, sessionsCache, revocation>>
  <2>1. CacheSound
    BY <1>4, CacheIsSound
  <2>2. PICK new \in Shake :
           /\ new = [cur EXCEPT !.pc = "findOne"] /\ new.id = cur.id /\ new.pc = "findOne"
           /\ new.late <=> cur.late
           /\ new.socket <=> cur.socket
           /\ new.cut <=> cur.cut
    <3> HIDE DEF Shake
    <3>1. "update" \in {"findUnique", "findOne", "update"} /\ "findOne" \in {"findUnique", "findOne", "update"}
      OBVIOUS
    <3> QED
      BY <3>1, ShakeMoves
  <2>3. shake' = [shake EXCEPT ![c] = new]
    BY <1>1, <1>4, <2>2
  <2>4. /\ Revoking(new.id) => new.late
        /\ ~new.late /\ new.pc # "findUnique" => new.id \in row
        /\ new.socket /\ ~new.cut => c \in open'
    BY <1>3, <1>4, <2>2
  <2> HIDE DEF Shake
  <2> QED
    BY <1>2, <1>3, <1>4, <2>1, <2>3, <2>4, MoveIInv
<1>5. CASE Checked(c, [cur EXCEPT !.late = TRUE])
  <2>1. PICK new \in Shake :
           /\ new = [cur EXCEPT !.late = TRUE] /\ new.id = cur.id /\ new.late
           /\ new.socket <=> cur.socket
           /\ new.cut <=> cur.cut
    BY ShakeIsLate
  <2>2. Checked(c, new)
    BY <1>5, <2>1
  <2> HIDE DEF Shake
  <2> QED
    BY <1>2, <1>3, <2>1, <2>2, CheckedIInv
<1>6. CASE Reject(c, cur)
  BY <1>1, <1>2, <1>3, <1>6 DEF Reject, IInv, TypeOK, LateWhenRevoked, Present, Told,
       RevokedSessionHasNoConnection, Connecting, ForgottenWhenClosed, Twins, Deleted, Revoking
<1> QED
  BY <1>1, <1>2, <1>4, <1>5, <1>6 DEF FindUnique

(* The user was read.                                                      *)
LEMMA FindOneIInv ==
    ASSUME ConnectionsAssumption, IInv, NEW c \in Clients, FindOne(c)
    PROVE  IInv'
<1>1. PICK cur \in Shake : cur = shake[c]
  BY DEF FindOne, IInv, TypeOK
<1>2. /\ shake[c] # None /\ cur.pc = "findOne" /\ UNCHANGED <<row, alive>>
  BY <1>1 DEF FindOne
<1>3. /\ connections[c] = None /\ open \subseteq Clients
      /\ Revoking(cur.id) => cur.late
      /\ ~cur.late => cur.id \in row
      /\ cur.socket /\ ~cur.cut => c \in open
  BY <1>1, <1>2 DEF IInv, Connecting, TypeOK, LateWhenRevoked, Present
<1>4. ASSUME sessionsCache' = [sessionsCache EXCEPT ![cur.id] = IF cur.late THEN "late" ELSE "current"]
      PROVE  CacheSound
  BY <1>3, <1>4 DEF IInv, CacheSound, TypeOK, Present, LateWhenRevoked
<1>5. CASE /\ sessionsCache' = [sessionsCache EXCEPT ![cur.id] = IF cur.late THEN "late" ELSE "current"]
           /\ shake' = [shake EXCEPT ![c] = None]
           /\ connections' = Registered(c, cur, cur.id)
           /\ UNCHANGED <<open, revocation>>
  <2> HIDE DEF Shake
  <2> QED
    BY <1>2, <1>3, <1>4, <1>5, RegisterIInv
<1>6. CASE /\ sessionsCache' = [sessionsCache EXCEPT ![cur.id] = IF cur.late THEN "late" ELSE "current"]
           /\ shake' = [shake EXCEPT ![c].pc = "update"]
           /\ UNCHANGED <<connections, open, revocation>>
  <2>1. CacheSound
    BY <1>4, <1>6
  <2>2. PICK new \in Shake :
           /\ new = [cur EXCEPT !.pc = "update"] /\ new.id = cur.id /\ new.pc = "update"
           /\ new.late <=> cur.late
           /\ new.socket <=> cur.socket
           /\ new.cut <=> cur.cut
    <3> HIDE DEF Shake
    <3>1. "update" \in {"findUnique", "findOne", "update"} /\ "findOne" \in {"findUnique", "findOne", "update"}
      OBVIOUS
    <3> QED
      BY <3>1, ShakeMoves
  <2>3. shake' = [shake EXCEPT ![c] = new]
    BY <1>1, <1>6, <2>2
  <2>4. /\ Revoking(new.id) => new.late
        /\ ~new.late /\ new.pc # "findUnique" => new.id \in row
        /\ new.socket /\ ~new.cut => c \in open'
    BY <1>3, <1>6, <2>2
  <2> HIDE DEF Shake
  <2> QED
    BY <1>2, <1>3, <1>6, <2>1, <2>3, <2>4, MoveIInv
<1>7. CASE /\ Revoke(cur.id, FALSE, [LateShakes(cur.id) EXCEPT ![c] = None])
           /\ open' = open \ {c}
           /\ UNCHANGED connections
  <2>1. PICK i \in Ids : i = cur.id
    OBVIOUS
  <2>2. Revoke(i, FALSE, [LateShakes(i) EXCEPT ![c] = None])
    BY <1>7, <2>1
  <2> QED
    BY <1>2, <1>7, <2>2, ExpiredIInv
<1> QED
  BY <1>1, <1>2, <1>5, <1>6, <1>7 DEF FindOne

(* The session was extended, or is gone.                                   *)
LEMMA UpdateIInv ==
    ASSUME ConnectionsAssumption, IInv, NEW c \in Clients, Update(c)
    PROVE  IInv'
<1>1. PICK cur \in Shake : cur = shake[c]
  BY DEF Update, IInv, TypeOK
<1>2. PICK i \in {Guest} \cup ({cur.id} \cap row) : connections' = Registered(c, cur, i)
  BY <1>1 DEF Update
<1>3. /\ shake[c] # None /\ i \in {cur.id, Guest}
      /\ connections' = Registered(c, cur, i)
      /\ shake' = [shake EXCEPT ![c] = None]
      /\ UNCHANGED <<row, sessionsCache, open, revocation, alive>>
  BY <1>1, <1>2 DEF Update
<1>4. /\ connections[c] = None /\ open \subseteq Clients
      /\ Revoking(cur.id) => cur.late
      /\ cur.socket /\ ~cur.cut => c \in open
      /\ ~cur.late /\ i # Guest => i \in row
  BY <1>1, <1>2, <1>3 DEF IInv, Connecting, TypeOK, LateWhenRevoked
<1>5. CacheSound
  BY <1>3, CacheIsSound
<1> HIDE DEF Shake
<1> QED
  BY <1>3, <1>4, <1>5, RegisterIInv

(* What a connected socket does to its entry: it is late, a guest's or     *)
(* gone.                                                                   *)
LEMMA EntryIInv ==
    ASSUME ConnectionsAssumption, IInv, NEW c \in Clients, NEW new \in Connection \cup {None},
           connections' = [connections EXCEPT ![c] = new],
           new # None => new.late \/ new.id = Guest,
           new # None /\ c \notin open' => new.cut,
           new # None => shake[c] = None,
           \/ shake' = shake /\ (shake[c] # None /\ c \in open => c \in open')
           \/ shake[c] # None /\ shake' = [shake EXCEPT ![c].cut = TRUE],
           \A d \in Clients \ {c} : d \in open' <=> d \in open,
           open' \subseteq Clients,
           UNCHANGED <<row, sessionsCache, revocation, alive>>
    PROVE  IInv'
<1> USE DEF IInv
<1>1. \A d \in Clients : connections'[d] = IF d = c THEN new ELSE connections[d]
  BY DEF TypeOK
<1>2. \A d \in Clients : shake[d] # None => shake[d] \in Shake
  BY DEF TypeOK
<1>3. \A d \in Clients : shake'[d] # None =>
          /\ shake[d] # None /\ shake'[d] \in Shake
          /\ shake'[d].id = shake[d].id /\ shake'[d].pc = shake[d].pc
          /\ shake'[d].late <=> shake[d].late
          /\ shake'[d].socket <=> shake[d].socket
          /\ ~shake'[d].cut => ~shake[d].cut
          /\ d = c /\ c \in open => shake'[d].cut \/ c \in open'
  <2>1. CASE shake' = shake /\ (shake[c] # None /\ c \in open => c \in open')
    BY <1>2, <2>1
  <2>2. CASE shake[c] # None /\ shake' = [shake EXCEPT ![c].cut = TRUE]
    <3> SUFFICES ASSUME NEW d \in Clients, shake'[d] # None
                 PROVE  /\ shake[d] # None /\ shake'[d] \in Shake
                        /\ shake'[d].id = shake[d].id /\ shake'[d].pc = shake[d].pc
                        /\ shake'[d].late <=> shake[d].late
                        /\ shake'[d].socket <=> shake[d].socket
                        /\ ~shake'[d].cut => ~shake[d].cut
                        /\ d = c => shake'[d].cut
      OBVIOUS
    <3>1. CASE d = c
      <4>1. PICK s \in Shake : s = shake[c]
        BY <1>2, <2>2
      <4>2. shake'[c] = [s EXCEPT !.cut = TRUE]
        BY <2>2, <4>1 DEF TypeOK
      <4>3. PICK after \in Shake :
               /\ after = [s EXCEPT !.cut = TRUE] /\ after.id = s.id /\ after.pc = s.pc
               /\ after.late <=> s.late
               /\ after.socket <=> s.socket
               /\ after.cut
        <5> HIDE DEF Shake
        <5> QED
          BY ShakeIsCut
      <4> HIDE DEF Shake
      <4>4. shake'[c] = after
        BY <4>2, <4>3
      <4> QED
        BY <2>2, <3>1, <4>1, <4>3, <4>4
    <3>2. CASE d # c
      BY <1>2, <2>2, <3>2 DEF TypeOK
    <3> QED
      BY <3>1, <3>2
  <2> QED
    BY <2>1, <2>2
<1>4. shake' \in [Clients -> Shake \cup {None}]
  <2> HIDE DEF Shake
  <2> QED
    BY <1>3 DEF TypeOK
<1>5. TypeOK'
  BY <1>4 DEF TypeOK
<1>6. \A i \in Ids : Revoking(i)' <=> Revoking(i)
  BY DEF Revoking
<1>7. LateWhenRevoked' /\ Present'
  BY <1>3, <1>6 DEF LateWhenRevoked, Present
<1>8. Told'
  <2> SUFFICES ASSUME NEW t \in Tasks, revocation[t] # None, revocation[t].pc = "delete",
                      NEW d \in Clients, connections'[d] # None,
                      connections'[d].id = revocation[t].id
               PROVE  connections'[d].late
    BY DEF Told
  <2>1. revocation[t].id # Guest
    BY DEF TypeOK, ConnectionsAssumption
  <2>2. CASE d = c
    BY <1>1, <2>1, <2>2
  <2>3. CASE d # c
    BY <1>1, <2>3 DEF Told
  <2> QED
    BY <2>2, <2>3
<1>9. RevokedSessionHasNoConnection'
  BY <1>1 DEF RevokedSessionHasNoConnection, ConnectionsAssumption
<1>10. Connecting'
  <2> SUFFICES ASSUME NEW d \in Clients, shake'[d] # None
               PROVE  /\ connections'[d] = None
                      /\ shake'[d].socket /\ ~shake'[d].cut => d \in open'
    BY DEF Connecting
  <2>1. shake[d] # None
    BY <1>3
  <2>2. connections'[d] = None
    BY <1>1, <2>1 DEF Connecting
  <2>3. ASSUME shake'[d].socket, ~shake'[d].cut PROVE d \in open'
    BY <1>3, <2>1, <2>3 DEF Connecting
  <2> QED
    BY <2>2, <2>3
<1>11. ForgottenWhenClosed'
  BY <1>1 DEF ForgottenWhenClosed
<1>12. Twins' /\ Deleted'
  BY DEF Twins, Deleted
<1> QED
  BY <1>5, <1>7, <1>8, <1>9, <1>10, <1>11, <1>12

(* A socket closes: it leaves the table, and a validation goes on.         *)
LEMMA HandleDisconnectIInv ==
    ASSUME ConnectionsAssumption, IInv, NEW c \in Clients, HandleDisconnect(c)
    PROVE  IInv'
<1>1. PICK new \in Connection \cup {None} : new = None
  OBVIOUS
<1>2. connections' = [connections EXCEPT ![c] = new]
  BY <1>1 DEF HandleDisconnect, Forgotten
<1>3. /\ open' = open \ {c} /\ c \in open /\ UNCHANGED <<row, sessionsCache, revocation, alive>>
      /\ shake' = IF shake[c] = None THEN shake ELSE [shake EXCEPT ![c].cut = TRUE]
  BY DEF HandleDisconnect
<1>4. open' \subseteq Clients /\ (\A d \in Clients \ {c} : d \in open' <=> d \in open)
  BY <1>3 DEF IInv, TypeOK
<1>5. \/ shake' = shake /\ (shake[c] # None /\ c \in open => c \in open')
      \/ shake[c] # None /\ shake' = [shake EXCEPT ![c].cut = TRUE]
  BY <1>3
<1> HIDE DEF Connection, Shake
<1> QED
  BY <1>1, <1>2, <1>3, <1>4, <1>5, EntryIInv

(* A guest connects.                                                       *)
LEMMA ConnectAsGuestIInv ==
    ASSUME ConnectionsAssumption, IInv, NEW c \in Clients, ConnectAsGuest(c)
    PROVE  IInv'
<1>1. PICK new \in Connection \cup {None} : new = [id |-> Guest, late |-> FALSE, cut |-> FALSE]
  OBVIOUS
<1>2. /\ connections' = [connections EXCEPT ![c] = new]
      /\ new.id = Guest
      /\ open' = open \cup {c} /\ shake[c] = None
      /\ UNCHANGED <<row, sessionsCache, shake, revocation, alive>>
  BY <1>1 DEF ConnectAsGuest, Unused
<1>3. open' \subseteq Clients
  BY <1>2 DEF IInv, TypeOK
<1> HIDE DEF Connection, Shake
<1> QED
  BY <1>2, <1>3, EntryIInv

(* A connected socket is not connecting.                                   *)
LEMMA ConnectedIsDone ==
    ASSUME IInv, NEW c \in Clients, connections[c] # None
    PROVE  shake[c] = None
BY DEF IInv, Connecting

(* "auth" names another session.                                           *)
LEMMA OnAuthIInv ==
    ASSUME ConnectionsAssumption, IInv, NEW c \in Clients, NEW i \in Ids, OnAuth(c, i)
    PROVE  IInv'
<1>1. PICK cur \in Connection : cur = connections[c]
  BY DEF OnAuth, IInv, TypeOK
<1>2. PICK new \in Connection \cup {None} : new = [cur EXCEPT !.id = i, !.late = TRUE] /\ new.late
  <2> WITNESS [cur EXCEPT !.id = i, !.late = TRUE] \in Connection \cup {None}
  <2> QED
    OBVIOUS
<1>3. connections' = [connections EXCEPT ![c] = new]
  BY <1>1, <1>2 DEF OnAuth
<1>4. c \in open /\ connections[c] # None /\ UNCHANGED <<row, sessionsCache, open, shake, revocation, alive>>
  BY DEF OnAuth
<1>5. open' \subseteq Clients /\ shake[c] = None
  BY <1>4, ConnectedIsDone DEF IInv, TypeOK
<1> HIDE DEF Connection, Shake
<1> QED
  BY <1>2, <1>3, <1>4, <1>5, EntryIInv

(* "logout" makes the socket a guest's.                                    *)
LEMMA OnLogoutIInv ==
    ASSUME ConnectionsAssumption, IInv, NEW c \in Clients, OnLogout(c)
    PROVE  IInv'
<1>1. PICK cur \in Connection : cur = connections[c]
  BY DEF OnLogout, IInv, TypeOK
<1>2. PICK new \in Connection \cup {None} : new = [cur EXCEPT !.id = Guest] /\ new.id = Guest
  <2> WITNESS [cur EXCEPT !.id = Guest] \in Connection \cup {None}
  <2> QED
    OBVIOUS
<1>3. connections' = [connections EXCEPT ![c] = new]
  BY <1>1, <1>2 DEF OnLogout
<1>4. c \in open /\ connections[c] # None /\ UNCHANGED <<row, sessionsCache, open, shake, revocation, alive>>
  BY DEF OnLogout
<1>5. open' \subseteq Clients /\ shake[c] = None
  BY <1>4, ConnectedIsDone DEF IInv, TypeOK
<1> HIDE DEF Connection, Shake
<1> QED
  BY <1>2, <1>3, <1>4, <1>5, EntryIInv

(* A revocation looks for the row, and tells the sockets.                  *)
LEMMA CountIInv ==
    ASSUME ConnectionsAssumption, IInv, NEW t \in Tasks, Count(t)
    PROVE  IInv'
<1> USE DEF IInv
<1>1. PICK r \in Revocation : r = revocation[t] /\ r.pc = "count"
  BY DEF Count, TypeOK
<1>2. UNCHANGED <<row, sessionsCache, open, shake, alive>> /\ r # None
  BY <1>1 DEF Count
<1>3. CASE /\ r.id \in row
           /\ revocation' = [revocation EXCEPT ![t].pc = "delete"]
           /\ connections' = EmitLogout(r.id)
  <2>1. PICK n \in Revocation :
           /\ n = [r EXCEPT !.pc = "delete"] /\ n.id = r.id /\ n.pc = "delete"
           /\ n.twice <=> r.twice
    <3> WITNESS [r EXCEPT !.pc = "delete"] \in Revocation
    <3> QED
      OBVIOUS
  <2>2. \A s \in Tasks : revocation'[s] = IF s = t THEN n ELSE revocation[s]
    BY <1>1, <1>3, <2>1 DEF TypeOK
  <2>3. \A c \in Clients : connections'[c] # None =>
            connections[c] # None /\ connections'[c] = connections[c] /\ connections'[c].id # r.id
    BY <1>3 DEF EmitLogout
  <2>4. TypeOK'
    <3>1. revocation' \in [Tasks -> Revocation \cup {None}]
      <4> HIDE DEF Revocation
      <4> QED
        BY <1>1, <1>3, <2>1 DEF TypeOK
    <3>2. connections' \in [Clients -> Connection \cup {None}]
      <4> HIDE DEF Connection
      <4> QED
        BY <1>3 DEF EmitLogout, TypeOK
    <3> QED
      BY <1>2, <3>1, <3>2 DEF TypeOK
  <2>5. \A i \in Ids : Revoking(i)' => Revoking(i)
    BY <1>1, <1>2, <2>1, <2>2 DEF Revoking
  <2>6. LateWhenRevoked' /\ Present'
    BY <1>2, <2>5 DEF LateWhenRevoked, Present
  <2>7. Told'
    BY <2>1, <2>2, <2>3 DEF Told
  <2>8. Connecting'
    BY <1>2, <2>3 DEF Connecting
  <2>9. RevokedSessionHasNoConnection' /\ ForgottenWhenClosed'
    BY <1>2, <2>3 DEF RevokedSessionHasNoConnection, ForgottenWhenClosed
  <2>10. Twins'
    BY <1>1, <1>2, <2>1, <2>2 DEF Twins
  <2>11. Deleted'
    BY <1>2, <1>3, <2>1, <2>2 DEF Deleted
  <2> QED
    BY <2>4, <2>6, <2>7, <2>8, <2>9, <2>10, <2>11
<1>4. CASE revocation' = [revocation EXCEPT ![t] = None] /\ UNCHANGED connections
  BY <1>2, <1>4 DEF TypeOK, LateWhenRevoked, Present, Told, RevokedSessionHasNoConnection,
       Connecting, ForgottenWhenClosed, Twins, Deleted, Revoking
<1> QED
  BY <1>1, <1>2, <1>3, <1>4 DEF Count

(* The row is deleted, or the deletion rejects: for its caller, or to the  *)
(* end of the process.                                                     *)
LEMMA DeleteIInv ==
    ASSUME ConnectionsAssumption, IInv, NEW t \in Tasks, Delete(t)
    PROVE  IInv'
<1> USE DEF IInv
<1>1. CASE UNCHANGED row /\ Dies
  BY <1>1 DEF Delete, Dies, ConnectionsAssumption, TypeOK, LateWhenRevoked, Present, Told,
       RevokedSessionHasNoConnection, Connecting, ForgottenWhenClosed, Twins, Deleted, Revoking
<1>2. CASE /\ revocation' = [revocation EXCEPT ![t] = None]
           /\ UNCHANGED <<sessionsCache, open, shake, connections, alive>>
           /\ row' \in {row, row \ {revocation[t].id}}
  <2>1. PICK r \in Revocation : r = revocation[t] /\ r.pc = "delete" /\ r # None
    BY DEF Delete, TypeOK
  <2>2. row' \in {row, row \ {r.id}} /\ Revoking(r.id)
    BY <1>2, <2>1 DEF Revoking
  <2>3. \A s \in Tasks : revocation'[s] = IF s = t THEN None ELSE revocation[s]
    BY <1>2 DEF TypeOK
  <2>4. TypeOK'
    BY <1>2, <2>2 DEF TypeOK
  <2>5. \A i \in Ids : Revoking(i)' => Revoking(i)
    BY <2>3 DEF Revoking
  <2>6. LateWhenRevoked'
    BY <1>2, <2>5 DEF LateWhenRevoked
  <2>7. Present'
    BY <1>2, <2>2 DEF Present, LateWhenRevoked, TypeOK
  <2>8. Told' /\ Connecting' /\ ForgottenWhenClosed' /\ Twins'
    BY <1>2, <2>3 DEF Told, Connecting, ForgottenWhenClosed, Twins
  <2>9. RevokedSessionHasNoConnection'
    BY <1>2, <2>1, <2>2 DEF RevokedSessionHasNoConnection, Told
  <2>10. Deleted'
    BY <2>1, <2>2, <2>3 DEF Deleted, Twins
  <2> QED
    BY <2>4, <2>6, <2>7, <2>8, <2>9, <2>10
<1> QED
  BY <1>1, <1>2 DEF Delete

(* An entry of the cache is dropped, or the process starts.                *)
LEMMA CleanIInv ==
    ASSUME ConnectionsAssumption, IInv,
           \/ \E i \in Ids : CleanSessionsCache(i)
           \/ Start
           \/ UNCHANGED connectionVars
    PROVE  IInv'
BY DEF ConnectionsAssumption, CleanSessionsCache, Start, connectionVars, IInv, TypeOK, LateWhenRevoked,
       Present, Told, RevokedSessionHasNoConnection, Connecting, ForgottenWhenClosed, Twins, Deleted, Revoking

(* Every step keeps the invariant.                                         *)
LEMMA NextIInv == ASSUME ConnectionsAssumption, IInv, [Next]_connectionVars PROVE IInv'
<1>1. ASSUME NEW i \in Ids, Logout(i) PROVE IInv'
  <2>1. TRUE \in BOOLEAN /\ open' = open /\ UNCHANGED <<row, connections, alive>>
    BY <1>1 DEF Logout
  <2> QED
    BY <1>1, <2>1, LogoutIInv DEF Logout
<1>2. ASSUME NEW t \in Tasks, Count(t) \/ Delete(t) PROVE IInv'
  BY <1>2, CountIInv, DeleteIInv
<1>3. ASSUME NEW c \in Clients,
             \/ FindUnique(c) \/ FindOne(c) \/ Update(c)
             \/ ConnectAsGuest(c) \/ OnLogout(c) \/ HandleDisconnect(c)
      PROVE  IInv'
  BY <1>3, FindUniqueIInv, FindOneIInv, UpdateIInv, ConnectAsGuestIInv, OnLogoutIInv, HandleDisconnectIInv
<1>4. ASSUME NEW c \in Clients, NEW i \in Ids,
             OnAuth(c, i) \/ \E socket \in BOOLEAN : HandleConnection(c, i, socket)
      PROVE  IInv'
  BY <1>4, OnAuthIInv, HandleConnectionIInv
<1> QED
  BY <1>1, <1>2, <1>3, <1>4, CleanIInv DEF Next

-----------------------------------------------------------------------------
(* The theorems.                                                           *)

(* The invariant holds in every state.                                     *)
THEOREM Invariance == ASSUME ConnectionsAssumption PROVE Spec => []IInv
<1>1. Init => IInv
  BY InitIInv
<1>2. IInv /\ [Next]_connectionVars => IInv'
  BY NextIInv
<1> QED
  BY <1>1, <1>2, PTL DEF Spec

(* The variables have their types.                                         *)
THEOREM TypeCorrect == ASSUME ConnectionsAssumption PROVE Spec => []TypeOK
<1>1. IInv => TypeOK
  BY DEF IInv
<1> QED
  BY <1>1, Invariance, PTL

(* The logout reaches every socket of a session whose row goes, but those  *)
(* validated while it went.                                                *)
THEOREM RevokedSessionIsForgotten ==
    ASSUME ConnectionsAssumption PROVE Spec => []RevokedSessionHasNoConnection
<1>1. IInv => RevokedSessionHasNoConnection
  BY DEF IInv
<1> QED
  BY <1>1, Invariance, PTL

(* Only sockets that closed while they were connecting stay in the table.  *)
THEOREM ClosedSocketIsForgotten ==
    ASSUME ConnectionsAssumption PROVE Spec => []ForgottenWhenClosed
<1>1. IInv => ForgottenWhenClosed
  BY DEF IInv
<1> QED
  BY <1>1, Invariance, PTL

(* An un-awaited deletion of which there is no other is right to expect    *)
(* the row: it rejects only if the database refuses.                       *)
THEOREM OneRevocationIsSafe ==
    ASSUME ConnectionsAssumption PROVE Spec => OnlyUnawaitedDeletionsEndTheProcess
<1>1. IInv /\ [Next]_connectionVars =>
          [alive /\ ~alive' =>
               \E t \in Tasks :
                   /\ revocation[t] # None /\ ~revocation[t].awaited
                   /\ revocation[t].twice \/ revocation[t].id \in row]_connectionVars
  <2> SUFFICES ASSUME IInv, Next, alive, ~alive'
               PROVE  \E t \in Tasks :
                          /\ revocation[t] # None /\ ~revocation[t].awaited
                          /\ revocation[t].twice \/ revocation[t].id \in row
    OBVIOUS
  <2>1. PICK t \in Tasks : Delete(t) /\ ~revocation[t].awaited
    BY DEF Next, Logout, Count, Delete, CleanSessionsCache, Start, FindUnique, FindOne, Update,
       ConnectAsGuest, OnAuth, OnLogout, HandleDisconnect, HandleConnection
  <2>2. revocation[t] # None /\ (revocation[t].twice \/ revocation[t].id \in row)
    BY <2>1 DEF Delete, IInv, Deleted
  <2> QED
    BY <2>1, <2>2
<1> QED
  BY <1>1, Invariance, PTL DEF Spec, OnlyUnawaitedDeletionsEndTheProcess
=============================================================================
