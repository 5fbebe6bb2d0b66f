------------------------------- MODULE Reports -------------------------------
(***************************************************************************)
(* The reports on the tickets of Intake, while tickets come in and are     *)
(* resolved: the overview with its filters and pages, the dashboard, the   *)
(* series and the technicians' figures, and the exports of all of them.    *)
(* A report answers at once what one statement reads; the overview and the *)
(* series read twice, and the dashboard asks for every clock anew in each  *)
(* of four tables.                                                         *)
(*                                                                         *)
(* Time is in days.  Minutes, percentages and names are left out: a report *)
(* is the counts they are made of.  What the clock of a ticket says is     *)
(* fixed when the ticket is resolved; before, it may run out (SlaClock is  *)
(* about how it is computed).                                              *)
(***************************************************************************)
EXTENDS Intake

CONSTANTS Week, Month,    \* their days; day 0 is the first of both
          DefaultDays,    \* _DEFAULT_PERIOD_DAYS
          Policed,        \* the priorities that have an SLA policy
          Period, Filter, Page,   \* inputs: dates, what to list, and which part of it
          ExportLimit     \* the 10 000 tickets of an export

VARIABLE view             \* the reporting request

desk == <<rows, lastId, parent, tickets, answers, today, call, calls, view>>

\* The end of a period: its day in UTC, which the queries compare, and how far from that is
\* the date in the caller's offset, which the buckets begin and end with.
Moment == [day : Int, shift : {-1, 0, 1}]
Date(moment) == moment.day + moment.shift

ASSUME ReportsAssumption ==
  /\ {Week, Month, ExportLimit} \subseteq Nat \ {0} /\ DefaultDays \in Nat
  /\ None \notin {"met", "breached"}
  /\ \A period \in Period : {period.from, period.to} \subseteq Moment \cup {None}
  /\ \A part \in Page : {part.skip, part.limit} \subseteq Int

Closing == {"resolvido", "fechado", "cancelado"}
All == DOMAIN tickets

calculate_sla(row) ==
  IF row.status # "cancelado" /\ row.priority \in Policed THEN row.verdict ELSE None
Judged(row) == calculate_sla(row) \in {"met", "breached"}

\* Without an offset a date is one of UTC.
_resolve_period(period) ==
  LET to == IF period.to = None THEN [day |-> today, shift |-> 0] ELSE period.to
  IN [from |-> IF period.from = None THEN [to EXCEPT !.day = @ - DefaultDays] ELSE period.from,
      to   |-> to]

In(day, dates) == day # None /\ dates.from.day <= day /\ day <= dates.to.day
OpenedIn(dates) == {t \in All : In(tickets[t].created, dates)}
ResolvedIn(dates) == {t \in All : In(tickets[t].resolved, dates)}

(***************************************************************************)
(* The dashboard: tables of a dimension, which key gives, of the rows that *)
(* were read.                                                              *)
(***************************************************************************)
Count(set, Test(_)) == Cardinality({t \in set : Test(t)})

_count_by(read, key) ==
  [k \in {key[t] : t \in DOMAIN read} |-> Count(DOMAIN read, LAMBDA t : key[t] = k)]

_sla_compliance_by(read, key) ==
  LET judged == {t \in DOMAIN read : read[t].resolved # None /\ Judged(read[t])}
  IN [k \in {key[t] : t \in judged} |->
        [met      |-> Count(judged, LAMBDA t : key[t] = k /\ calculate_sla(read[t]) = "met"),
         breached |-> Count(judged, LAMBDA t : key[t] = k /\ calculate_sla(read[t]) = "breached")]]

\* The sample of each average: tickets with an SLA, and those with a final clock.
_average_time_by(read, key) ==
  LET timed == {t \in DOMAIN read : calculate_sla(read[t]) # None}
  IN [k \in {key[t] : t \in timed} |->
        [sample |-> Count(timed, LAMBDA t : key[t] = k),
         final  |-> Count(timed, LAMBDA t : key[t] = k /\ Judged(read[t]))]]

Column(read, column) == [t \in DOMAIN read |-> read[t][column]]
_team(read) == [t \in DOMAIN read |-> IF read[t].team = None THEN "Sem equipe" ELSE read[t].team]

Volumes == {"volume_by_status", "volume_by_team", "volume_by_level"}

\* What get_dashboard_overview makes of the rows before it asks for any clock.
volumes(read) ==
  [total_tickets    |-> Cardinality(DOMAIN read),
   volume_by_status |-> _count_by(read, Column(read, "status")),
   volume_by_team   |-> _count_by(read, _team(read)),
   volume_by_level  |-> _count_by(read, Column(read, "level"))]

\* The other tables, in their order: which one comes next.
Following == [sla_compliance_by_priority |-> "sla_compliance_by_team",
              sla_compliance_by_team     |-> "average_time_by_team",
              average_time_by_team       |-> "average_time_by_category",
              average_time_by_category   |-> "idle"]

sla_table(section, read) ==
  CASE section = "sla_compliance_by_priority" -> _sla_compliance_by(read, Column(read, "priority"))
    [] section = "sla_compliance_by_team"     -> _sla_compliance_by(read, _team(read))
    [] section = "average_time_by_team"       -> _average_time_by(read, _team(read))
    [] OTHER                                  -> _average_time_by(read, Column(read, "category"))

\* The file has one line per section and dimension, and neither the total nor the counts
\* behind a percentage or an average.
Value(section, item) ==
  CASE section \in Volumes -> item
    [] section \in {"sla_compliance_by_priority", "sla_compliance_by_team"} ->
         (100 * item.met) \div (item.met + item.breached)
    [] OTHER -> IF item.final = 0 THEN None ELSE "minutes"

export_dashboard_csv(overview) ==
  LET sections == DOMAIN overview \ {"total_tickets"}
  IN [line \in UNION {{<<section, k>> : k \in DOMAIN overview[section]} : section \in sections}
        |-> Value(line[1], overview[line[1]][line[2]])]

(***************************************************************************)
(* The series and the technicians' figures.                                *)
(***************************************************************************)
_bucket_key(day, granularity) ==
  CASE granularity = "day"  -> day
    [] granularity = "week" -> day - (day % Week)
    [] OTHER                -> day \div Month

\* Fault: the last day of the period is left out.
buckets_before_end(dates, granularity) ==
  {_bucket_key(day, granularity) : day \in Date(dates.from)..Date(dates.to) - 1}

\* The dates the cursor visits: each, every seventh from the first, or the first of each
\* month; dates of the caller, whose keys are compared with those of tickets, in UTC.
_enumerate_buckets(dates, granularity) ==
  {_bucket_key(day, granularity) : day \in {d \in Date(dates.from)..Date(dates.to) :
     CASE granularity = "day"  -> TRUE
       [] granularity = "week" -> (d - Date(dates.from)) % Week = 0
       [] OTHER                -> d = Date(dates.from) \/ d % Month = 0}}

\* read: the tickets opened in the period, with resolved_at as the first statement saw it.
\* The second statement finds more of them, but the session keeps the rows it has loaded.
Seen(t, read) == IF t \in DOMAIN read THEN read[t] ELSE tickets[t].resolved

Stale(dates, read) == \E t \in ResolvedIn(dates) : Seen(t, read) = None

get_kpi_trend(dates, granularity, read) ==
  LET opened(t, b)   == _bucket_key(tickets[t].created, granularity) = b
      resolved(t, b) == _bucket_key(Seen(t, read), granularity) = b
  IN [b \in _enumerate_buckets(dates, granularity) |->
       [opened_count   |-> Count(DOMAIN read, LAMBDA t : opened(t, b)),
        resolved_count |-> Count(ResolvedIn(dates), LAMBDA t : resolved(t, b)),
        sla_met        |-> Count(ResolvedIn(dates),
                                 LAMBDA t : resolved(t, b) /\ calculate_sla(tickets[t]) = "met"),
        sla_breached   |-> Count(ResolvedIn(dates),
                                 LAMBDA t : resolved(t, b) /\ calculate_sla(tickets[t]) = "breached")]]

get_technician_kpis(dates) ==
  LET set == {t \in ResolvedIn(dates) : tickets[t].assignee # None}
      of(t, u) == tickets[t].assignee = u
  IN [u \in {tickets[t].assignee : t \in set} |->
       [tickets_resolved |-> Count(set, LAMBDA t : of(t, u)),
        sla_met          |-> Count(set, LAMBDA t : of(t, u) /\ calculate_sla(tickets[t]) = "met"),
        sla_breached     |-> Count(set, LAMBDA t : of(t, u) /\ calculate_sla(tickets[t]) = "breached")]]

\* One line per bucket, or per technician.
export_kpi_trend_csv(points) == {[bucket |-> b, counts |-> points[b]] : b \in DOMAIN points}
export_technician_kpis_csv(items) == {[technician |-> u, counts |-> items[u]] : u \in DOMAIN items}

(***************************************************************************)
(* The overview.                                                           *)
(***************************************************************************)
Matching(filter) ==
  {t \in All : /\ filter.statuses # {} => tickets[t].status \in filter.statuses
               /\ filter.team \in {None, tickets[t].team}
               /\ filter.level \in {None, tickets[t].level}
               /\ filter.from # None => tickets[t].created >= filter.from
               /\ filter.to # None => tickets[t].created <= filter.to
               /\ filter.sla \in {None, calculate_sla(tickets[t])}}

\* Where an index into a list of n stands: a negative one counts from the end.
Position(index, n) == IF index < 0 THEN Max({0, n + index}) ELSE Min({index, n})

\* The pages an order by created_at, the latest first, may give: ties are in any order.
Pages(set, part) ==
  LET skipped == Position(part.skip, Cardinality(set))
      length  == Max({0, Position(part.skip + part.limit, Cardinality(set)) - skipped})
      NotAfter(a, b) == \A t \in a, u \in b : tickets[t].created >= tickets[u].created
  IN {page \in kSubset(length, set) : \E before \in kSubset(skipped, set \ page) :
        NotAfter(before, set \ before) /\ NotAfter(page, set \ (before \cup page))}

(***************************************************************************)
(* Requests.                                                               *)
(***************************************************************************)
NoView == [at |-> "idle", kind |-> "none", status |-> 0, csv |-> FALSE, dates |-> None,
           granularity |-> "day", read |-> <<>>, filter |-> None, part |-> None,
           answer |-> None, total |-> 0, overtaken |-> FALSE, edited |-> {}]

\* What a finished report leaves: its parameters, what it was about and what it said.
Report(kind, csv, dates, granularity, read, answer) ==
  [NoView EXCEPT !.kind = kind, !.status = 200, !.csv = csv, !.dates = dates,
                 !.granularity = granularity, !.read = read, !.answer = answer]

\* Reports are for staff; views: what a request for a page or for a file may leave.
Request(views) ==
  /\ view.at = "idle" /\ calls < MaxCalls
  /\ calls' = calls + 1
  /\ \E user \in Active :
       IF user \in Staff THEN \E csv \in BOOLEAN : view' \in views[csv]
       ELSE view' = [NoView EXCEPT !.status = 403]
  /\ UNCHANGED <<rows, lastId, parent, tickets, answers, today, call>>

\* The tickets are loaded and counted; the clocks are still to be asked for.
read_dashboard_overview == \E period \in Period :
  LET dates == _resolve_period(period)
      read  == [t \in OpenedIn(dates) |-> tickets[t]]
  IN Request([csv \in BOOLEAN |->
       {[Report("dashboard", csv, dates, "day", read, volumes(read))
           EXCEPT !.at = "sla_compliance_by_priority"]}])

read_technician_kpis == \E period \in Period :
  LET dates == _resolve_period(period)
      items == get_technician_kpis(dates)
  IN Request([csv \in BOOLEAN |-> {Report("technicians", csv, dates, "day", ResolvedIn(dates),
               IF csv THEN export_technician_kpis_csv(items) ELSE items)}])

read_kpi_trend == \E period \in Period, granularity \in {"day", "week", "month", "other"} :
  LET dates == _resolve_period(period)
  IN Request([csv \in BOOLEAN |->
       {[Report("trend", csv, dates, IF granularity = "other" THEN "day" ELSE granularity,
                [t \in OpenedIn(dates) |-> tickets[t].resolved], None) EXCEPT !.at = "half"]}])

\* With an sla_status everything is read once, and counted and cut in memory.
read_tickets_overview == \E filter \in Filter, part \in Page :
  LET set == Matching(filter)
  IN Request([csv \in BOOLEAN |->
       LET cut == IF csv THEN [skip |-> 0, limit |-> ExportLimit] ELSE part
           report(page) == [Report("overview", csv, None, "day", set, page)
                              EXCEPT !.filter = filter, !.part = cut]
       IN IF filter.sla = None THEN {[report(None) EXCEPT !.at = "half"]}
          ELSE {report(page) : page \in Pages(set, cut)}])

\* What else the clock of a row may say: it runs out, or an edit turns it either way.
Turned(row) == [row EXCEPT !.verdict =
  IF row.resolved = None THEN IF @ = "running" THEN "breached" ELSE "running"
  ELSE IF @ = "met" THEN "breached" ELSE "met"]

\* The row as it was loaded, with the policy, the history and the time of now.
MayTurn(t) ==
  \/ t \in view.edited
  \/ /\ view.read[t].resolved = None /\ view.read[t].verdict = "running"
     /\ tickets[t].verdict # "running"

\* One more table; calculate_sla is called for each ticket, each time a little later.
ReadClocks ==
  /\ view.at \in DOMAIN Following
  /\ \E late \in SUBSET {t \in DOMAIN view.read : MayTurn(t)} :
       LET read     == [t \in DOMAIN view.read |->
                          IF t \in late THEN Turned(view.read[t]) ELSE view.read[t]]
           overview == [section \in DOMAIN view.answer \cup {view.at} |->
                          IF section = view.at THEN sla_table(section, read) ELSE view.answer[section]]
           next     == Following[view.at]
       IN view' = [view EXCEPT !.at = next, !.read = read,
                     !.answer = IF next = "idle" /\ view.csv THEN export_dashboard_csv(overview)
                                ELSE overview]
  /\ UNCHANGED intake

\* The second statement.  The database refuses a negative offset or limit; bucket keys of a
\* resolution time that is not there raise.
ReadAgain ==
  /\ view.at = "half"
  /\ IF view.kind = "overview"
     THEN IF view.part.skip < 0 \/ view.part.limit < 0 THEN view' = [NoView EXCEPT !.status = 500]
          ELSE \E page \in Pages(Matching(view.filter), view.part) :
                 view' = [view EXCEPT !.at = "idle", !.answer = page]
     ELSE view' = IF Stale(view.dates, view.read) THEN [NoView EXCEPT !.status = 500]
                  ELSE LET points == get_kpi_trend(view.dates, view.granularity, view.read)
                       IN [view EXCEPT !.at = "idle",
                             !.total = Cardinality(ResolvedIn(view.dates)),
                             !.answer = IF view.csv THEN export_kpi_trend_csv(points) ELSE points]
  /\ UNCHANGED intake

\* An answer is gone with the next step; one that is still to come may be overtaken, and the
\* clocks of some tickets edited.
Meanwhile(edited) ==
  view' = IF view.at = "idle" THEN NoView
          ELSE [view EXCEPT !.overtaken = @ \/ tickets' # tickets,
                            !.edited = IF view.kind = "dashboard" THEN @ \cup edited ELSE @]

\* edit_ticket, as far as the reports see it: the first resolution is stamped for good, and
\* does not bring back a clock that has run out.
ResolveTicket(t) ==
  /\ tickets[t].status \notin Closing /\ calls < MaxCalls
  /\ calls' = calls + 1
  /\ \E technician \in Staff \cup {None}, verdict \in {"met", "breached"} :
       /\ tickets[t].verdict = "breached" => verdict = "breached"
       /\ tickets' = [tickets EXCEPT ![t].status = "resolvido", ![t].resolved = Or(@, today),
                                     ![t].assignee = technician, ![t].verdict = verdict]
  /\ Meanwhile({t})
  /\ UNCHANGED <<rows, lastId, parent, answers, today, call>>

\* An edit of a policy, of a window or of the history: any clock may say something else.
EditPolicy(t) ==
  /\ calls < MaxCalls
  /\ calls' = calls + 1
  /\ tickets' = [tickets EXCEPT ![t] = Turned(@)]
  /\ Meanwhile(All)
  /\ UNCHANGED <<rows, lastId, parent, answers, today, call>>

\* A clock runs out before its ticket is resolved.
RunsOut(t) ==
  /\ tickets[t].resolved = None /\ tickets[t].verdict = "running" /\ tickets[t].created < today
  /\ tickets' = [tickets EXCEPT ![t].verdict = "breached"]
  /\ Meanwhile({})
  /\ UNCHANGED <<rows, lastId, parent, answers, today, call, calls>>

DeskInit == Init /\ view = NoView

DeskNext ==
  \/ Next /\ Meanwhile({})
  \/ read_dashboard_overview \/ read_technician_kpis \/ read_kpi_trend
  \/ read_tickets_overview \/ ReadClocks \/ ReadAgain
  \/ \E t \in All : ResolveTicket(t) \/ EditPolicy(t) \/ RunsOut(t)

DeskSpec == DeskInit /\ [][DeskNext]_desk

(***************************************************************************)
(* Properties                                                              *)
(***************************************************************************)
SumOver(counts) == MapThenSumSet(LAMBDA k : counts[k], DOMAIN counts)

\* A table of the dashboard, from the answer or from the file.
Table(section) ==
  IF view.csv
  THEN [k \in {line[2] : line \in {l \in DOMAIN view.answer : l[1] = section}}
          |-> view.answer[<<section, k>>]]
  ELSE view.answer[section]

Total(section, Number(_)) ==
  LET table == Table(section) IN SumOver([k \in DOMAIN table |-> Number(table[k])])

\* The tickets that were resolved when the dashboard loaded them.
Settled == {t \in DOMAIN view.read : view.read[t].resolved # None}

DashboardAddsUp ==
  LET verdicts(section, verdict) == Total(section, LAMBDA counts : counts[verdict])
      judged(section)            == Total(section, LAMBDA counts : counts.met + counts.breached)
      final(section)             == Total(section, LAMBDA counts : counts.final)
  IN /\ \A section \in Volumes : Total(section, LAMBDA count : count) = Cardinality(DOMAIN view.read)
     /\ ~view.csv /\ view.edited \cap Settled = {} =>
          /\ \A verdict \in {"met", "breached"} :
               verdicts("sla_compliance_by_priority", verdict)
                 = verdicts("sla_compliance_by_team", verdict)
          /\ \A section \in {"average_time_by_team", "average_time_by_category"} :
               final(section) >= judged("sla_compliance_by_team")
     /\ ~view.csv /\ view.edited \cap DOMAIN view.read = {} =>
          final("average_time_by_category") >= final("average_time_by_team")

\* The counts of the answer's buckets or technicians, or of the lines of the file.
Lines ==
  IF view.csv THEN view.answer ELSE {[key |-> k, counts |-> view.answer[k]] : k \in DOMAIN view.answer}

\* The days whose bucket is not in the answer.
Missing(day) ==
  _bucket_key(day, view.granularity)
    \notin IF view.csv THEN {line.bucket : line \in view.answer} ELSE DOMAIN view.answer

SameBucket(day, other) ==
  _bucket_key(day, view.granularity) = _bucket_key(other, view.granularity)

\* A ticket counts once, in its bucket, if that is there.  The only ones that may not be are
\* the first, when the caller's date is ahead of UTC at the beginning of the period, and the
\* last, when it is behind at the end or when a weekly series begins late in its week.
TrendAddsUp ==
  LET opened   == SumOver([line \in Lines |-> line.counts.opened_count])
      resolved == SumOver([line \in Lines |-> line.counts.resolved_count])
      from     == view.dates.from
      to       == view.dates.to
  IN /\ opened + Count(DOMAIN view.read, LAMBDA t : Missing(tickets[t].created))
          = Cardinality(DOMAIN view.read)
     /\ resolved + Count(ResolvedIn(view.dates), LAMBDA t : Missing(tickets[t].resolved)) = view.total
     /\ \A day \in from.day..to.day : Missing(day) =>
          \/ SameBucket(day, from.day) /\ Date(from) > from.day
          \/ /\ SameBucket(day, to.day)
             /\ \/ Date(to) < to.day
                \/ view.granularity = "week" /\ Date(from) % Week > Date(to) % Week

\* The size of a page and the total were read in two statements.
PageFits ==
  ~view.overtaken /\ {view.part.skip, view.part.limit} \subseteq Nat =>
    Cardinality(view.answer)
      = Min({view.part.limit, Max({0, Cardinality(view.read) - view.part.skip})})

\* The figures of a report add up, whatever the period, its offsets and its alignment with
\* weeks and months, and whatever comes in, runs out or is resolved meanwhile.  Every ticket
\* of the dashboard is in exactly one status, team and level, on the page as in the file.
\* Although each table asks for the clocks anew, both tables of compliance judge the same
\* tickets, both tables of averages include those, and the later one those of the earlier
\* one, unless an edit changed clocks that they had read.  A series loses no ticket but those of a
\* first or last bucket that it lacks, and a page is as long as its total promises.
ReportsAddUp ==
  view.at = "idle" /\ view.status = 200 =>
    /\ view.kind = "dashboard" => DashboardAddsUp
    /\ view.kind = "trend" => TrendAddsUp
    /\ view.kind = "overview" => PageFits
    /\ view.kind \in {"trend", "technicians"} =>
         \A line \in Lines : line.counts.sla_met + line.counts.sla_breached
                                <= line.counts[IF view.kind = "trend" THEN "resolved_count"
                                               ELSE "tickets_resolved"]
=============================================================================
