------------------------------ MODULE Statistics ------------------------------
(***************************************************************************)
(* The log of the visits to links, and the charts drawn from it: what      *)
(* LoggerMiddleware writes for an answer, the ranges of time LogsService   *)
(* cuts a chart into, and what it counts in them.                          *)
(*                                                                         *)
(* Time is in ticks, the smallest differences the database keeps.          *)
(***************************************************************************)
EXTENDS Integers, Sequences, FiniteSets

CONSTANT Hour    \* ticks in an hour

StatisticsAssumption == Hour \in Nat \ {0}

Day == 24 * Hour

(* startOf and endOf.                                                      *)
StartOf(unit, t) == (t \div unit) * unit
EndOf(unit, t) == StartOf(unit, t) + unit - 1

Whole(unit, t) == [from |-> StartOf(unit, t), to |-> EndOf(unit, t)]

-----------------------------------------------------------------------------
(* What is logged: visits to the content and zip routes only.              *)

Answers == [route : {"content", "zip"}, code : {200, 201, 206, 304, 400, 404, 500}, d : BOOLEAN]

Ok == {200, 201, 304}

GetAction(answer) ==
    IF answer.route = "zip" THEN "DOWNLOAD_ZIP" ELSE IF answer.d THEN "DOWNLOAD" ELSE "READ"

GetStatus(answer) == IF answer.code \in Ok THEN "ALLOWED" ELSE "DENIED"

GetReason(answer) ==
    IF answer.code \in Ok THEN "NONE"
    ELSE IF answer.code = 404 /\ answer.route = "content" THEN "EXPIRED" ELSE "NOT_EXIST"

RegisterActivity(answer, t) ==
    [action |-> GetAction(answer), status |-> GetStatus(answer), reason |-> GetReason(answer), date |-> t]

-----------------------------------------------------------------------------
(* The ranges of a chart.                                                  *)

(* n whole units up to that of now, the oldest first.                      *)
LastUnits(n, unit, now) == [i \in 1 .. n |-> Whole(unit, now - (n - i) * unit)]

GetTimeLast7Days(now) == LastUnits(7, Day, now)
GetTimeLast30Days(now) == LastUnits(30, Day, now)

(* On the n-th day of a month.                                             *)
GetTimeThisMonth(n, now) == LastUnits(n, Day, now)

GetTimeTodayDimension(now) == LastUnits((now - StartOf(Day, now)) \div Hour + 1, Hour, now)

RangeC(from, to) == IF (to - from) \div Hour <= 48 THEN Hour ELSE Day

(* Mutant: each range starts where the one before it does.                 *)
CustomShifted(from, to) ==
    LET unit == RangeC(from, to)
        diffTime == (to - from) \div unit
    IN  Append([i \in 1 .. diffTime |->
                   IF i = 1 THEN [from |-> from, to |-> EndOf(unit, from)]
                   ELSE Whole(unit, from + (i - 2) * unit)],
               [from |-> StartOf(unit, to), to |-> to])

GetCustomTimeDimension(from, to) ==
    LET unit == RangeC(from, to)
        diffTime == (to - from) \div unit
    IN  Append([i \in 1 .. diffTime |->
                   IF i = 1 THEN [from |-> from, to |-> EndOf(unit, from)]
                   ELSE Whole(unit, from + (i - 1) * unit)],
               [from |-> StartOf(unit, to), to |-> to])

-----------------------------------------------------------------------------
(* The charts: a line for each id, with a count for each range.            *)

ByAction == {"CREATED", "READ", "DOWNLOAD", "DELETE", "DOWNLOAD_ZIP", "MODIFY"}
ByStatus == {"DENIED", "ALLOWED"}
ByReason == {"NOT_EXIST", "EXPIRED", "WRONG_OWNER", "NONE"}

In(range, t) == range.from <= t /\ t <= range.to

(* The ranges in which a log shows.                                        *)
Shows(timedimension, t) == {i \in DOMAIN timedimension : In(timedimension[i], t)}

(* The points of a chart that count a log whose entry for the group is id. *)
Points(lines, timedimension, id, t) == (lines \cap {id}) \X Shows(timedimension, t)

-----------------------------------------------------------------------------
(* Every visit is one point of each of the three charts.                   *)
OnceInEachChart(timedimension, t) ==
    \A answer \in Answers :
        LET log == RegisterActivity(answer, t)
        IN  /\ Cardinality(Points(ByAction, timedimension, log.action, log.date)) = 1
            /\ Cardinality(Points(ByStatus, timedimension, log.status, log.date)) = 1
            /\ Cardinality(Points(ByReason, timedimension, log.reason, log.date)) = 1

(* The last n days.                                                        *)
EveryDay(timedimension, n, from, to) ==
    LET first == StartOf(Day, to) - (n - 1) * Day
    IN  \A t \in {first, from, to} : first <= t => OnceInEachChart(timedimension, t)

(* The charts for today, the last days and the month count every visit of  *)
(* their time once.  A chart for a chosen time counts a visit at most once;*)
(* it misses those of the unit before the last, if it ends at an earlier   *)
(* minute (of the hour, or hour of the day) than it begins at; and it      *)
(* counts a visit before the beginning only if all of the time is in one   *)
(* unit.                                                                   *)
EveryVisitCounts(from, to) ==
    LET unit == RangeC(from, to)
        custom == GetCustomTimeDimension(from, to)
        Missed(t) == from % unit > to % unit /\ t \div unit = to \div unit - 1
    IN  /\ \A t \in StartOf(Day, to) .. to : OnceInEachChart(GetTimeTodayDimension(to), t)
        /\ EveryDay(GetTimeLast7Days(to), 7, from, to)
        /\ EveryDay(GetTimeLast30Days(to), 30, from, to)
        /\ \A n \in {1, 31} : EveryDay(GetTimeThisMonth(n, to), n, from, to)
        /\ \A t \in StartOf(unit, from) - 1 .. EndOf(unit, to) + 1 :
              IF t \in from .. to /\ ~Missed(t)
              THEN OnceInEachChart(custom, t)
              ELSE Shows(custom, t) # {} => from \div unit = to \div unit /\ t \in StartOf(unit, to) .. to
=============================================================================
