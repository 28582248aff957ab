------------------------------- MODULE Lockout -------------------------------
(***************************************************************************)
(* What a throttle of failed logins is for: a user who has been given      *)
(* MaxTries wrong passwords within Timeout minutes is locked, and while    *)
(* that is so every further attempt is refused, with the right password or *)
(* a wrong one; and nobody else is refused.  The lenient specification     *)
(* keeps the second half only.                                             *)
(***************************************************************************)
EXTENDS Integers, Sequences

CONSTANTS Users, MaxTries, Timeout

VARIABLES
    recent,   \* [Users -> Seq(Nat)]: the minutes of the last MaxTries wrong passwords
    minute,
    answer    \* the last answer to a login, or "none"

Locked(u) == Len(recent[u]) = MaxTries /\ minute - Head(recent[u]) < Timeout

(* The last MaxTries of one more than those at most.                       *)
Latest(minutes) == IF Len(minutes) > MaxTries THEN Tail(minutes) ELSE minutes

Init ==
    /\ recent = [u \in Users |-> <<>>]
    /\ minute = 0
    /\ answer = "none"

Accept(u) == answer' = "session" /\ UNCHANGED <<recent, minute>>

Reject(u) ==
    /\ answer' = "wrong"
    /\ recent' = [recent EXCEPT ![u] = Latest(Append(@, minute))]
    /\ UNCHANGED minute

Refuse(u) == Locked(u) /\ answer' = "refused" /\ UNCHANGED <<recent, minute>>

Pass == minute' = minute + 1 /\ UNCHANGED <<recent, answer>>

Restart == recent' = [u \in Users |-> <<>>] /\ answer' = "none" /\ UNCHANGED minute

Next ==
    \/ \E u \in Users : (~Locked(u) /\ (Accept(u) \/ Reject(u))) \/ Refuse(u)
    \/ Pass \/ Restart

Spec == Init /\ [][Next]_<<recent, minute, answer>>

LenientNext ==
    \/ \E u \in Users : Accept(u) \/ Reject(u) \/ Refuse(u)
    \/ Pass \/ Restart

LenientSpec == Init /\ [][LenientNext]_<<recent, minute, answer>>
=============================================================================
