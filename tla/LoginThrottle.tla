---------------------------- MODULE LoginThrottle ----------------------------
(***************************************************************************)
(* The throttle of failed logins in AuthService: two objects in memory, the*)
(* wrong passwords of a user and the time of the first of them.  A login   *)
(* asks the database for the user first; everything after that, up to the  *)
(* answer or the creation of the session, is one run of the thread.  What  *)
(* it is for is in Lockout.                                                *)
(***************************************************************************)
EXTENDS Integers, Sequences

CONSTANTS
    Users,
    MaxTries,   \* AUTH_MAX_TRIES, or 10
    Timeout,    \* AUTH_TIMEOUT in minutes, or 30
    MaxTime,    \* bound on the clock
    Never

ASSUME LoginThrottleAssumption ==
    /\ MaxTries \in Nat \ {0} /\ Timeout \in Nat \ {0}
    /\ MaxTime \in Nat
    /\ Never \notin Nat

VARIABLES
    tries,       \* [Users -> Nat]; an undefined one counts as 0
    lastTries,   \* [Users -> Nat \cup {Never}]
    minute,      \* the clock
    recent,      \* of Lockout: the minutes of a user's last wrong passwords
    answer       \* of Lockout: the last answer to a login

(* recent and answer are no part of the code.                              *)
throttleVars == <<tries, lastTries, minute, recent, answer>>

Promise == INSTANCE Lockout

ThrottleTypeOK ==
    /\ tries \in [Users -> Nat]
    /\ lastTries \in [Users -> 0 .. MaxTime \cup {Never}]
    /\ minute \in 0 .. MaxTime
    /\ recent \in [Users -> Seq(0 .. MaxTime)]
    /\ \A u \in Users : Len(recent[u]) <= MaxTries
    /\ answer \in {"none", "session", "wrong", "refused"}

TriesForgotten ==
    /\ tries' = [u \in Users |-> 0]
    /\ lastTries' = [u \in Users |-> Never]
    /\ recent' = [u \in Users |-> <<>>]
    /\ answer' = "none"

ThrottleInit ==
    /\ tries = [u \in Users |-> 0]
    /\ lastTries = [u \in Users |-> Never]
    /\ minute = 0
    /\ recent = [u \in Users |-> <<>>]
    /\ answer = "none"

(* diff(dayjs(undefined)) is 0: without a failure the window is open.      *)
InTimeout(u) == lastTries[u] # Never => minute - lastTries[u] < Timeout

(* Mutant: the count is never reset.                                       *)
NoReset(u) == tries[u]

(* What allowLogin leaves in tries.                                        *)
TriesAfterReset(u) == IF InTimeout(u) THEN tries[u] ELSE 0

AllowLogin(u) ==
    TriesAfterReset(u) = 0 \/ (TriesAfterReset(u) < MaxTries /\ InTimeout(u))

(* Only the first failure is ever remembered.                              *)
FirstFailure(u) == IF lastTries[u] = Never THEN minute ELSE lastTries[u]

(* A right password leaves the count as it is.                             *)
LoginRight(u) ==
    /\ AllowLogin(u)
    /\ tries' = [tries EXCEPT ![u] = TriesAfterReset(u)]
    /\ answer' = "session"
    /\ UNCHANGED <<lastTries, minute, recent>>

LoginWrong(u) ==
    /\ AllowLogin(u)
    /\ tries' = [tries EXCEPT ![u] = TriesAfterReset(u) + 1]
    /\ lastTries' = [lastTries EXCEPT ![u] = FirstFailure(u)]
    /\ recent' = [recent EXCEPT ![u] = Promise!Latest(Append(@, minute))]
    /\ answer' = "wrong"
    /\ UNCHANGED minute

LoginRefused(u) ==
    /\ ~AllowLogin(u)
    /\ answer' = "refused"
    /\ UNCHANGED <<tries, lastTries, minute, recent>>

PassMinute ==
    /\ minute < MaxTime
    /\ minute' = minute + 1
    /\ UNCHANGED <<tries, lastTries, recent, answer>>

(* The process ends and starts again: both objects are empty.              *)
ThrottleRestart == TriesForgotten /\ UNCHANGED minute

ThrottleNext ==
    \/ \E u \in Users : LoginRight(u) \/ LoginWrong(u) \/ LoginRefused(u)
    \/ PassMinute
    \/ ThrottleRestart

ThrottleSpec == ThrottleInit /\ [][ThrottleNext]_throttleVars

-----------------------------------------------------------------------------
(* Properties.                                                             *)

(* The throttle refuses a user only while MaxTries wrong passwords of the  *)
(* last Timeout minutes keep the user locked: the count is reset by the    *)
(* first attempt after the window and the time of the first failure never, *)
(* and no sequence of attempts and minutes shuts out anybody else.         *)
RefusesOnlyTheLocked == Promise!LenientSpec

(* What a message of the source says.                                      *)

(* 'Demasiados intentos fallidos': who is locked gets no further attempt.  *)
ThrottleImplementsLockout == Promise!Spec
=============================================================================
