----------------------------- MODULE SlaClock -----------------------------
(***************************************************************************)
(* The SLA clocks of one ticket.  Nothing about them is stored: each time     *)
(* they are asked for, calculate_sla rebuilds from the history which team had *)
(* the ticket and whether it was paused, adds up the working minutes of these  *)
(* segments and projects the due date from where they leave off.  The model   *)
(* lets a ticket live through PATCHes and time, and keeps beside the history   *)
(* what it really lived through, minute by minute.                            *)
(***************************************************************************)
EXTENDS BusinessTime

CONSTANTS
    Team, None,     \* None: no team, no value
    Schedules,      \* the schedules a team may have
    Targets,        \* the policies: minutes by clock
    Threshold,      \* sla_at_risk_threshold_percent
    Moves,          \* the statuses a PATCH may set
    Created,        \* when the ticket was opened
    MaxNow,         \* bound: the last instant looked at
    MaxChanges      \* bound: PATCHes

VARIABLES
    now, status, team, resolved_at, history,
    schedule,       \* of every team
    target,         \* the policy of the ticket's priority
    lived,          \* ghost: minutes that should count, by clock
    reached         \* ghost: when they came up to the target

vars == <<now, status, team, resolved_at, history, schedule, target, lived, reached>>

Clock == {"response", "resolution"}
StatusChamado == {"aguardando_aprovacao", "aberto", "em_atendimento", "aguardando_solicitante",
                  "resolvido", "fechado", "cancelado"}
Pausing == {"aguardando_solicitante", "aguardando_aprovacao"}

ClockResult == [elapsed : Nat, due : Nat \cup {None},
                status : {"met", "breached", "at_risk", "pending", "paused"}]

ASSUME ClockAssumption ==
    /\ None \notin Team /\ None \notin Nat
    /\ Unreachable # None /\ Unreachable \notin [Clock -> ClockResult]
    /\ Moves \subseteq StatusChamado
    /\ Schedules \subseteq SUBSET ScheduleEntry
    /\ Targets \subseteq [Clock -> Nat \ {0}]
    /\ Created \in Nat /\ MaxNow \in Nat /\ Created <= MaxNow /\ MaxChanges \in Nat

ScheduleOf(t) == IF t = None THEN {} ELSE schedule[t]

--------------------------------------------------------------------------
(* The history as calculate_sla reads it *)

ChangesOf(field) == {i \in DOMAIN history : history[i].field = field}

Responses == {i \in DOMAIN history : history[i].field = "status" /\ history[i].old = "aberto"}

\* When the clock stopped.
DoneAt(c) ==
    IF c = "resolution" THEN resolved_at
    ELSE IF Responses = {} THEN None ELSE history[Min(Responses)].at

\* _reconstruct_field_timeline and _value_at: before its first change a field had the value
\* that this change replaced.
ValueAt(field, current, moment) ==
    LET changes == ChangesOf(field)
        known == {i \in changes : history[i].at <= moment}
    IN  IF changes = {} THEN current
        ELSE IF known = {} THEN history[Min(changes)].old
        ELSE history[Max(known)].new

\* Fault: changes after the clock stopped are not left out.
Breakpoints_All(instants, end) == IF instants = {} THEN {Created} ELSE instants

\* Nothing is left if the clock stopped in the minute of the opening; the instants are whole
\* minutes here, and the code's fallback is the opening as well.
Breakpoints(instants, end) ==
    LET before == {b \in instants : b < end} IN IF before = {} THEN {Created} ELSE before

Instants == {Created} \cup {history[i].at : i \in ChangesOf("team_id") \cup ChangesOf("status")}

\* A segment and its working minutes.
Segment(start, end, windows, paused) ==
    [start |-> start, end |-> end, windows |-> windows, paused |-> paused,
     minutes |-> IF paused THEN 0 ELSE MinutesBetween(start, end, windows)]

\* _build_segments: each lasts until the next one begins.
Segments(end) ==
    LET points == Breakpoints(Instants, end)
        next(p) == {b \in points : b > p}
    IN  {Segment(p, IF next(p) = {} THEN end ELSE Min(next(p)),
                 Expand(ScheduleOf(ValueAt("team_id", team, p))),
                 ValueAt("status", status, p) \in Pausing) : p \in points}

\* From the end on everything stays as in the last segment.
Open(segments) == CHOOSE s \in segments : \A r \in segments : r.start <= s.start

--------------------------------------------------------------------------
(* _compute_clock *)

Elapsed(segments) == SumOver([s \in segments |-> s.minutes])

ElapsedBefore(segments, s) == Elapsed({r \in segments : r.start < s.start})

\* The segments by whose end the target has been reached.
Reaching(segments, minutes) ==
    {s \in segments : ~s.paused /\ ElapsedBefore(segments, s) + s.minutes >= minutes}

\* Fault: the due date is projected over the pause that is going on.
GoesOn_Paused(s) == TRUE

\* The clock will go on if nobody touches the ticket.
GoesOn(s) == ~s.paused

\* The due date: when the target was, or will be, reached.
DueAt(segments, end, minutes) ==
    LET reaching == Reaching(segments, minutes)
        first == CHOOSE s \in reaching : \A r \in reaching : s.start <= r.start
    IN  IF reaching # {}
        THEN AddMinutes(first.start, minutes - ElapsedBefore(segments, first), first.windows)
        ELSE IF GoesOn(Open(segments))
        THEN AddMinutes(end, minutes - Elapsed(segments), Open(segments).windows)
        ELSE None

\* Fault: the last minute of the target is not a breach yet.
ClockStatus_Late(done, elapsed, due, minutes) ==
    IF done # None THEN IF elapsed <= minutes THEN "met" ELSE "breached"
    ELSE IF due = None THEN "paused"
    ELSE IF elapsed > minutes THEN "breached"
    ELSE IF elapsed * 100 >= Threshold * minutes THEN "at_risk"
    ELSE "pending"

ClockStatus(done, elapsed, due, minutes) ==
    IF done # None THEN IF elapsed <= minutes THEN "met" ELSE "breached"
    ELSE IF due = None THEN "paused"
    ELSE IF elapsed >= minutes THEN "breached"
    ELSE IF elapsed * 100 >= Threshold * minutes THEN "at_risk"
    ELSE "pending"

Result(c) ==
    LET done == DoneAt(c)
        end == IF done = None THEN now ELSE done
        segments == Segments(end)
        elapsed == Elapsed(segments)
        due == DueAt(segments, end, target[c])
    IN  [elapsed |-> elapsed, due |-> due, status |-> ClockStatus(done, elapsed, due, target[c])]

\* Nothing is calculated for a cancelled ticket; one due date that is not found, and the
\* calculation fails.
calculate_sla ==
    LET results == [c \in Clock |-> Result(c)]
    IN  IF status = "cancelado" THEN None
        ELSE IF \E c \in Clock : results[c].due = Unreachable THEN Unreachable
        ELSE results

--------------------------------------------------------------------------
(* What happens to the ticket *)

Init ==
    /\ now = Created
    /\ status \in {"aberto", "aguardando_aprovacao"}
    /\ team \in Team \cup {None}
    /\ resolved_at = None
    /\ history = <<>>
    /\ schedule \in [Team -> Schedules]
    /\ target \in Targets
    /\ lived = [c \in Clock |-> 0]
    /\ reached = [c \in Clock |-> None]

\* One minute passes.  It counts for a clock that has not stopped, unless the ticket is
\* paused or the team it is with does not work.
Tick ==
    /\ now < MaxNow
    /\ now' = now + 1
    /\ lived' = [c \in Clock |->
                   lived[c] + IF /\ DoneAt(c) = None
                                 /\ status \notin Pausing
                                 /\ Working(now, ScheduleOf(team))
                              THEN 1 ELSE 0]
    /\ reached' = [c \in Clock |->
                     IF reached[c] = None /\ lived'[c] >= target[c] THEN now + 1 ELSE reached[c]]
    /\ UNCHANGED <<status, team, resolved_at, history, schedule, target>>

\* datetime.now is later than every instant on record.
Later == \A i \in DOMAIN history : history[i].at < now

\* A change is one row of the history, and no two carry the same instant.
MayChange == Len(history) < MaxChanges /\ Later

Recorded(field, old, new) ==
    history' = Append(history, [at |-> now, field |-> field, old |-> old, new |-> new])

Stamp(new) == IF new = "resolvido" /\ resolved_at = None THEN now ELSE resolved_at

SetStatus ==
    /\ MayChange
    /\ \E new \in Moves \ {status} :
          /\ status' = new
          /\ Recorded("status", status, new)
          /\ resolved_at' = Stamp(new)
    /\ UNCHANGED <<now, team, schedule, target, lived, reached>>

SetTeam ==
    /\ MayChange
    /\ \E new \in (Team \cup {None}) \ {team} :
          /\ team' = new
          /\ Recorded("team_id", team, new)
    /\ UNCHANGED <<now, status, resolved_at, schedule, target, lived, reached>>

Next == Tick \/ SetStatus \/ SetTeam

Spec == Init /\ [][Next]_vars

--------------------------------------------------------------------------
(* What the theorems assume of the schedules.  Nothing in the code enforces it: an       *)
(* overnight shift may reach into the next day's hours.                                  *)

Week == 0..(WeekLength * DayLength - 1)

\* No minute of the week belongs to two rows of a team.
RowsApart == \A s \in Schedules : \A m \in Week : \A e, f \in Claims(m, s) : e = f

--------------------------------------------------------------------------
(* Properties *)

HistoryRow == [at : Created..MaxNow, field : {"status", "team_id"},
               old : StatusChamado \cup Team \cup {None}, new : StatusChamado \cup Team \cup {None}]

\* The working minutes among those that add_business_minutes looks at before it gives up.
Ahead(s, start) == {m \in start..((Day(start) + Lookahead) * DayLength - 1) : Working(m, s)}

\* They are fewer than it has to find.
OutOfReach(s, start, minutes) == s # {} /\ Cardinality(Ahead(s, start)) < minutes

\* The variables hold instants, statuses, teams, history rows and minutes.  The clocks can
\* be calculated, unless a target is beyond what the lookahead holds of the hours of a team.
TypeOK ==
    /\ now \in Created..MaxNow
    /\ status \in StatusChamado
    /\ team \in Team \cup {None}
    /\ resolved_at \in Created..MaxNow \cup {None}
    /\ history \in Seq(HistoryRow)
    /\ schedule \in [Team -> Schedules]
    /\ target \in Targets
    /\ lived \in [Clock -> Nat]
    /\ reached \in [Clock -> Nat \cup {None}]
    /\ LET sla == calculate_sla
       IN  /\ sla \in [Clock -> ClockResult] \cup {None, Unreachable}
           /\ sla = Unreachable =>
                \E c \in Clock, t \in Team, start \in Created..now :
                    OutOfReach(schedule[t], start, target[c])

\* "... nunca reseta na troca de equipe/tecnico, e pausa automaticamente": the minutes
\* calculate_sla rebuilds from the history are the minutes the ticket really lived,
\* whatever teams, pauses and reopenings it went through.
ElapsedIsLived ==
    LET sla == calculate_sla
    IN  sla \notin {None, Unreachable} => \A c \in Clock : sla[c].elapsed = lived[c]

WorkingMinutes(from, to) == {m \in from..(to - 1) : Working(m, ScheduleOf(team))}

\* The due date is the very minute at which the target was reached, and before that the
\* minute at which it will be if nobody touches the ticket; a paused ticket has none.  It is
\* not found in one case alone: the days add_business_minutes looks at hold fewer working
\* minutes than are left, or all of them were over before the target was reached.
DueIsExact ==
    Later /\ status # "cancelado" => \A c \in Clock :
        LET due == Result(c).due
            left == target[c] - lived[c]
        IN  IF reached[c] # None
            THEN \/ due = reached[c]
                 \/ due = Unreachable /\ Day(reached[c] - 1) >= Day(Created) + Lookahead
            ELSE DoneAt(c) = None =>
                   IF status \in Pausing THEN due = None
                   ELSE IF OutOfReach(ScheduleOf(team), now, left) THEN due = Unreachable
                   ELSE /\ due \notin {None, Unreachable}
                        /\ due - 1 \in WorkingMinutes(now, due)
                        /\ Cardinality(WorkingMinutes(now, due)) = left

\* is_within_business_hours, which judges a window at a time, accepts the minutes that
\* the rows of the schedule claim, across midnight and the end of the week.
HoursAreRows ==
    \A t \in Team : IsWithinHours(now, Expand(schedule[t])) <=> Working(now, schedule[t])

\* The status comes from the elapsed minutes and the due date from a projection, and the
\* two agree: a running clock is breached from the minute on at which it is due.
BreachedWhenDue ==
    LET sla == calculate_sla
    IN  sla \notin {None, Unreachable} => \A c \in Clock :
            DoneAt(c) = None =>
                (sla[c].status = "breached" <=> sla[c].due # None /\ sla[c].due <= now)
==========================================================================
