--------------------------- MODULE BusinessTime ---------------------------
(***************************************************************************)
(* Minutes inside the working hours of a team.  An instant is a number of    *)
(* minutes since the midnight of a first weekday; a day has DayLength of     *)
(* them and a week WeekLength days.  A schedule is the set of the rows of     *)
(* teamschedule of one team.                                                   *)
(***************************************************************************)
EXTENDS Integers, Sequences, FiniteSets, FiniteSetsExt

CONSTANTS
    WeekLength,     \* 7
    DayLength,      \* 1440
    Lookahead,      \* _MAX_DAYS_LOOKAHEAD, in days
    AllDay,         \* None for the windows: a team without schedule is always at work
    Unreachable     \* the RuntimeError of add_business_minutes

Weekday == 0..(WeekLength - 1)
TimeOfDay == 0..(DayLength - 1)
ScheduleEntry == [weekday : Weekday, start : TimeOfDay, end : TimeOfDay]

\* The hours of a weekday; a window keeps the row it is made of: two rows may give the same.
Window == [from : Nat, to : Nat, of : ScheduleEntry]
WeeklyWindows == [Weekday -> SUBSET Window] \cup {AllDay}

ASSUME TimeAssumption ==
    /\ WeekLength \in Nat \ {0} /\ DayLength \in Nat \ {0} /\ Lookahead \in Nat
    /\ Unreachable \notin Nat
    /\ AllDay \notin [Weekday -> SUBSET Window]

Day(moment) == moment \div DayLength

--------------------------------------------------------------------------
Overnight(entry) == entry.end <= entry.start

\* An overnight shift is split at midnight: its rest belongs to the next weekday.
WindowsOn(schedule, weekday) ==
    {[from |-> entry.start, to |-> IF Overnight(entry) THEN DayLength ELSE entry.end, of |-> entry] :
        entry \in {e \in schedule : e.weekday = weekday}}
    \cup
    {[from |-> 0, to |-> entry.end, of |-> entry] :
        entry \in {e \in schedule : Overnight(e) /\ (e.weekday + 1) % WeekLength = weekday}}

\* expand_schedule
Expand(schedule) ==
    IF schedule = {} THEN AllDay ELSE [d \in Weekday |-> WindowsOn(schedule, d)]

RowBefore(e, f) ==
    \/ e.weekday < f.weekday
    \/ e.weekday = f.weekday /\ e.start < f.start
    \/ e.weekday = f.weekday /\ e.start = f.start /\ e.end < f.end

\* The order of the windows of a weekday: by their hours; the rows tell those apart that have
\* the same ones.
Earlier(v, w) ==
    \/ v.from < w.from
    \/ v.from = w.from /\ v.to < w.to
    \/ v.from = w.from /\ v.to = w.to /\ RowBefore(v.of, w.of)

--------------------------------------------------------------------------
(* The calculations go over the windows of a day, then on to the next day;  *)
(* what their loops add up are sums over windows.                            *)

AtMost(a, b) == IF a <= b THEN a ELSE b
AtLeast(a, b) == IF a >= b THEN a ELSE b

\* Fault: a window outside the interval is not left out.
Common_Signed(w, start, end) == AtMost(end, w.to) - AtLeast(start, w.from)

\* What a window has in common with the interval from start to end.
Common(w, start, end) == AtLeast(0, AtMost(end, w.to) - AtLeast(start, w.from))

SumOver(counts) == MapThenSumSet(LAMBDA k : counts[k], DOMAIN counts)

\* The windows of some days, each with its day.
Slots(windows, days) == UNION {{day} \X windows[day % WeekLength] : day \in days}

\* _window_bounds
Bounds(slot) == [from |-> slot[1] * DayLength + slot[2].from, to |-> slot[1] * DayLength + slot[2].to]

\* business_minutes_between
MinutesBetween(start, end, windows) ==
    IF end <= start THEN 0
    ELSE IF windows = AllDay THEN end - start
    ELSE SumOver([slot \in Slots(windows, Day(start)..Day(end)) |->
                    Common(Bounds(slot), start, end)])

Precedes(s, t) == s[1] < t[1] \/ (s[1] = t[1] /\ Earlier(s[2], t[2]))

\* Where add_business_minutes enters a window: the windows before it that day have moved the
\* cursor to their ends.
Entered(slots, slot, start) ==
    Max({start, Bounds(slot).from}
          \cup {Bounds(s).to : s \in {t \in slots : t[1] = slot[1] /\ Precedes(t, slot)}})

\* The minutes that are left of the window from there on.
Room(slots, slot, start) == AtLeast(0, Bounds(slot).to - Entered(slots, slot, start))

\* The minutes found before a window.
FoundBefore(slots, slot, start) ==
    SumOver([s \in {t \in slots : Precedes(t, slot)} |-> Room(slots, s, start)])

\* add_business_minutes: the last minute is found in the window that has enough left for it.
AddMinutes(start, minutes, windows) ==
    LET slots == Slots(windows, Day(start)..(Day(start) + Lookahead - 1))
        found(slot) == FoundBefore(slots, slot, start)
        Last(slot) == found(slot) < minutes /\ minutes <= found(slot) + Room(slots, slot, start)
        last == CHOOSE slot \in slots : Last(slot)
    IN  IF minutes <= 0 THEN start
        ELSE IF windows = AllDay THEN start + minutes
        ELSE IF \E slot \in slots : Last(slot)
        THEN Entered(slots, last, start) + (minutes - found(last))
        ELSE Unreachable

\* Fault: the end of a window still belongs to it.
IsWithinHours_Closed(moment, windows) ==
    windows = AllDay \/ \E w \in windows[Day(moment) % WeekLength] :
                           w.from <= moment % DayLength /\ moment % DayLength <= w.to

\* is_within_business_hours
IsWithinHours(moment, windows) ==
    windows = AllDay \/ \E w \in windows[Day(moment) % WeekLength] :
                           w.from <= moment % DayLength /\ moment % DayLength < w.to

--------------------------------------------------------------------------
(* What a row means, whatever is made of it *)

\* From its start on a row claims so many minutes, into the next day if it has to.
ShiftLength(entry) ==
    IF Overnight(entry) THEN DayLength - entry.start + entry.end ELSE entry.end - entry.start

\* The rows that claim a minute.
Claims(moment, schedule) ==
    {e \in schedule :
        (moment - (e.weekday * DayLength + e.start)) % (WeekLength * DayLength) < ShiftLength(e)}

Working(moment, schedule) == schedule = {} \/ Claims(moment, schedule) # {}
==========================================================================
