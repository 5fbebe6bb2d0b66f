---------------------------- MODULE MCSlaClock ----------------------------
(* A week of two days of three minutes; teams with every kind of shift. *)
EXTENDS SlaClock

Shift(day, start, end) == [weekday |-> day, start |-> start, end |-> end]

\* No rows, a day shift, one to midnight, one over it, one of a day, two that meet, two that
\* leave a gap.
Shifts == {{}, {Shift(0, 1, 2)}, {Shift(0, 1, 0)}, {Shift(1, 2, 1)}, {Shift(0, 1, 1)},
           {Shift(0, 2, 1), Shift(1, 1, 0)}, {Shift(0, 0, 2), Shift(1, 2, 0)}}

TwoPolicies == {[response |-> 1, resolution |-> 3], [response |-> 2, resolution |-> 2]}

ASSUME ScheduleAssumption == RowsApart
==========================================================================
