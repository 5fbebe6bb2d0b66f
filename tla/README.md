# Helpdesk backend: a TLA+ verification project

The repository is a helpdesk API: FastAPI controllers over service functions over SQLModel
(PostgreSQL), with Celery workers for the periodic jobs and the webhooks, Redis as the broker and an
S3 store for attachments. This directory holds TLA+ models of its core, the TLC configurations that
check them and the proofs TLAPS checks. `PROJECT.json` lists every run, mutant, mapped definition,
finding, hazard and theorem.

## 1. What the system is made of

Every HTTP request gets its own ORM session (`core/database.py`), and so does every Celery task. A
service function loads rows, checks them, changes the objects in memory and commits. There is no row
lock, no version column and no explicit isolation level: PostgreSQL runs READ COMMITTED, and an
UPDATE writes only the columns the session changed. All the concurrency of the system is therefore
between **what a session loaded** and **what is in the table when it commits**, plus what happens
after a commit (events sent to the broker) and between two commits of one request.

| component | state | operations | interacts with | what makes it correct |
|---|---|---|---|---|
| Ticket lifecycle (`ticket_service`) | `ticket` rows | open, PATCH | triage, history, teams, events | levels go down only by an admin; assignee fits level and team; timestamps follow the status |
| Approval (`ticket_approval_service`, `approval_tasks`) | the status column | approve, reject, VIP approval, timeout sweep | lifecycle, catalog, Celery Beat | one decision per pending ticket, on record; overdue tickets get decided |
| Catalog requests (`ticket_catalog_service`) | answers, item of a ticket | open from an item: validate the form, two commits | lifecycle, approval, service catalog | a ticket that needs approval is pending from the start; answers keep their questions |
| Audit history (`ticket_history`) | append-only rows | one row per changed field | SLA clocks read it | entries chain up to the current value |
| Reference tables (`team_`, `team_schedule_`, `sla_policy_`, `category_`, `user_`, `asset_`, `ticket_asset_service`) | their rows | read, then insert, update or delete | each other; assignee check, SLA clocks, opening | unique keys under check-then-insert; errors explained |
| Event dispatch (`notification_service`) | Celery queue | one task per subscription | lifecycle, comments, SLA alerts | only committed facts are announced, each once |
| Webhook delivery (`webhook_tasks`, `webhook_subscription_service`) | delivery log, subscriptions | attempt, retry, CRUD | broker, receiver | every task ends; every attempt is logged |
| SLA alerts (`sla_notification_service`) | last notified status per clock | sweep | SLA clocks, dispatch | one alert per transition |
| SLA clocks (`sla_calculation_service`), business time (`business_time`) | none (computed from the history) | elapsed time, due date, status | history, schedules | count the minutes really lived; due dates are exact |
| Triage (`triage_service`) | rules | edit; apply in order | opening, working hours | the last matching rule wins |
| Service catalog (`service_catalog_service`) | items, form fields | create, PATCH, remove fields | catalog requests | a form stays readable for the answers given to it |
| Knowledge base (`article_service`, `ticket_article_service`) | articles, links, solution flag | write, search, link, mark the solution, suggest | lifecycle (`resolved_at`), categories | drafts stay hidden; one solution; subcategory fits |
| Comments and mentions (`comment_service`) | comments, mentions | comment (two commits, then events) | dispatch | events say what is stored, once; a 201 means all of it |
| Attachments (`attachment_service`, `core/storage`) | rows, objects, the bucket | put the object, commit the row | S3 store | every row has its object |
| Reports (`kpi_service`, `dashboard_service`, `ticket_overview_service`, `export_service`) | none | aggregate, page, export | tickets, SLA clocks | the figures add up |
| Settings, authentication, HTTP wiring | one row; none; none | - | - | - |

What is hard here: stale reads between load and commit, two commits in one request, events after the
commit, a periodic task racing an administrator, a sweep that aborts half-way, read-then-insert
uniqueness, retries of a delivery that may have arrived. The tests of the repository run every case
in one transactional session, so none of this is exercised by them. `PROJECT.json` "hazards" lists
each at its line.

## 2. Plan

Done:

1. `TicketLifecycle` + `AuditTrail` (first: the tables every other component reads). Checked, proved.
2. `WebhookDelivery`: fan-out, subscriptions, Celery task with retries, delivery log. Checked, proved.
3. `SlaMonitor`: the sweep that turns clock statuses into alerts, with overlaps, locks, deadlocks and
   crashes. Checked, proved.
4. `BusinessTime` + `SlaClock`: the algorithms over the working hours and the clocks rebuilt from the
   history, against an independent account of what the ticket lived through. Checked, proved.

5. `Registry`: the writers of the reference tables, which read and then write, with and without a unique
   index behind them, and the impact suggestions of the assets. Checked, proved.
6. `KnowledgeBase`: articles, their links to tickets, the solution, search and suggestions. Checked,
   proved.
7. `Conversation`: comments, mentions and attachments, with a failure between any two steps. Checked,
   proved.
8. `Intake`: triage rules, catalog items and forms, the opening of tickets; `Reports` EXTENDS it with the
   resolution of tickets and everything that counts them. Checked together, proved.

Every safety property a passing run checks is now also a theorem (section 5). Left to do: abstract
specifications beside `AuditTrail`, with the refinements proved: an alert log, at most one alert per
transition, that `SlaMonitor` implements while sweeps do not overlap, and a channel that delivers at most
`max_retries + 1` times, for `WebhookDelivery`; a composition of `SlaClock` with edits of schedules and
policies; `edit_ticket` in `Reports` beyond the first resolution.

## 3. Modules and the code

### `TicketLifecycle` (`MCTicketLifecycle`)

| model | code |
|---|---|
| `db[t]` | the committed `ticket` row: status, level, assignee, team, item, and whether `resolved_at` / `closed_at` are set |
| `history[t]` | the committed `ticket_history` rows of a ticket, by field, in commit order |
| `members` | `team_membership` |
| `ses[s]` | one ORM session: `snap` is the row as loaded, `new` the row as it will be flushed, `pc` where the handler is |
| `outbox[t]` | webhook events handed to the broker |
| `overdue[t]` | the approval deadline of the ticket's item has passed |
| `CreateTicket` | `create_ticket` (one insert; `Opening` is what category default and triage can produce) |
| `CreateFromCatalog`, `Promote`, `VipLoad` | `create_ticket_from_catalog`: commit inside `create_ticket`; second commit with item and status; automatic approval of a VIP |
| `ApproveLoad`, `Decide` | `approve_ticket`, up to and from its commit |
| `SweepStart`, `SweepNext`, `Decide` | `apply_approval_timeouts` |
| `PatchLoad`, `PatchCheck`, `PatchCommit`, `Notify` | `update_ticket`: guards on the loaded row; the membership read of `_validate_assignee`; commit of row and history; the dispatch loop |
| `Updated` | the flush: columns in which `new` differs from `snap`, over the row in the table |
| `AddMember`, `RemoveMember` | `team_service` |
| `Crash` | the process dies or the request ends in a 500 |

The guards are evaluated in the step that loads the row, because the code evaluates them on the
object it loaded; the row changes in the step that commits. Reads of the ticket that happen later in
the same handler see the same object (identity map), so they add no step; the membership row is
another object, read later, hence `PatchCheck`. A commit expires all loaded objects, so the sweep
re-reads each further ticket (`SweepNext`), and raises on one that is no longer pending.

Abstractions: resolved_at and closed_at are kept as "not NULL"; title, description, priority and
category are tracked columns that no guard reads and behave as `team_id` does; catalog items and the
level of a technician do not change during a behaviour (no endpoint updates a user; editing an item
while its tickets are pending is not modelled); a refused request (403, 409, 422) changes nothing and
is not a step. Explicit `null` for status or level ends in a NOT NULL violation and a rollback: not a
body of `Patch`.

What the two guards are worth when requests overlap is said by two action properties. `DecidesAwaiting`:
the ticket of a decision is pending, or was when it was loaded and has in its history the change that the
decision goes over. `OnlyAdminDowngrades`: a level goes down by an administrator, or by a technician's
raise that goes over a higher one. That a decision is of a pending ticket (`DecidesPending`) is what the
docstring says and TLC refutes (`find_double_decision`).

### `AuditTrail`

The abstract specification: a row appears, may have its first values corrected before anything is
logged (that is the pending status set by the second commit of a catalog request), and from then on
every change of a tracked field is one entry `[old, new]`. `TicketLifecycle!KeepsAuditTrail` is
`AuditTrail!Spec` under the mapping `current <- TrackedRows` (the tracked columns of `db`),
`log <- history`.

### `WebhookDelivery` (`MCWebhookDelivery`)

| model | code |
|---|---|
| `subs[s]` | the `webhook_subscription` row: absent, active, inactive or deleted, the events it listens to, and whether httpx can parse its url (`Parsable`) |
| `task[e][s]` | the one Celery task of an event and a subscription, and where it is: `fanout` (selected, not yet queued), `queued`, `post`, `record`, `retry`, `ended` by itself, `lost` with its process |
| `log[e][s]` | the `webhook_delivery` rows of the pair, by outcome |
| `received[e][s]` | ghost: how often the receiver got the request |
| `CreateSubscription`, `UpdateSubscription`, `DeleteSubscription` | `webhook_subscription_service` |
| `Dispatch`, `Enqueue`, `AbortFanout` | `dispatch_event`: the query of the active subscriptions, one `.delay` per subscription, a broker that refuses half-way |
| `Take`, `Post`, `Record`, `Retry` | `send_webhook_notification`: the subscription read again, the request, the attempt committed, `self.retry` |
| `WorkerCrash` | the worker dies between two of these |

Celery acknowledges a task when a worker takes it (the repository sets no `acks_late`), so the task of a
dead worker is gone. A subscription with recorded deliveries cannot be deleted (foreign key), and an attempt
for a subscription deleted meanwhile is lost with the same key. An unreachable receiver may have got the
request or not: a timeout says nothing. A url is any string of at most 500 characters
(`schemas/webhook_subscription.py:13`); one that httpx cannot parse raises `InvalidURL`, which is no
`RequestError`, so the task ends in `Take` without a request, a row or a retry. A PATCH of a subscription
with an explicit `null` is a 500 and no step. Payload, signature and back-off times are left out.

### `SlaMonitor` (`MCSlaMonitor`)

| model | code |
|---|---|
| `active` | tickets outside `STATUS_ENCERRADOS` |
| `clocks[t]` | what `calculate_sla` returns now (an input: `SlaClock` models how) |
| `state[t]` | the committed `sla_notification_state` row |
| `sweep[w]` | one run of `check_sla_breaches`: tickets left (`old`: those edited since the query), the row and statuses it looked at, alerts due, rows written and not committed |
| `alerts`, `entered`, `lost`, `overlapped`, `mixed` | what was handed to `dispatch_event`; ghosts |
| `TimePasses` | the minutes of a clock come to its threshold or its target |
| `Edit` | a PATCH of the ticket, its closing or reopening, an edit of its policy or of a schedule |
| `SweepStart`, `Look`, `SendAlert`, `Commit` | the query, the loop, `dispatch_event`, the one commit at the end |
| `Insert`, `Flush` | the statements the session sends: a new row when the first query after `session.add` autoflushes, a changed row at the next query |
| `Crash`, `DeadlockVictim` | a sweep rolled back: worker, broker or `calculate_sla` failed; the database broke a cycle of row locks |

The tickets are loaded at the start; policy, history and schedules are read when each is looked at, and the
code puts the two together (`sla_calculation_service.py:178-202`). For a ticket that nobody edited in
between this is what its clocks are now. For one that was edited, `Look` may read anything an edit can leave
(`Readings`): what the clocks were, what they are, or what they were at no moment, for example a resolution
that the loaded `resolved_at` does not have yet with the new priority's policy. `EditReadings` bounds what
an edit can leave. An UPDATE writes only the columns that changed (`Keep`), a written row is locked until
the transaction ends (`Locked`), and inserting a row that exists violates the primary key (`Conflict`) and
rolls the sweep back; its alerts stay sent. `pending`, `paused` and `met` play one role, so `Quiet` is a
constant with one element in the runs.

### `BusinessTime`, `SlaClock` (`MCSlaClock`)

| model | code |
|---|---|
| `Expand`, `MinutesBetween`, `AddMinutes`, `IsWithinHours` | the four functions of `business_time` |
| `Slots`, `Bounds`, `Common` | the days of an interval with their windows; `_window_bounds`; what the loop adds for one window |
| `Entered`, `Room`, `FoundBefore` | `seg_start` and `cursor`, `seg_seconds`, `remaining_seconds` of `add_business_minutes` |
| `ValueAt`, `Segments`, `Open` | `_reconstruct_field_timeline` with `_value_at`, `_build_segments`, its last segment |
| `Elapsed`, `Reaching`, `DueAt`, `ClockStatus`, `Result`, `calculate_sla` | `_compute_clock`, `calculate_sla` |
| `SetStatus`, `SetTeam` | a PATCH of one field with its history row and timestamp |
| `Tick`, `lived`, `reached` | a minute passes; ghosts: the minutes that should have counted, the minute the target came up |
| `Claims`, `Working` | what a schedule row means, said without windows: the reference definition |

Time is in whole minutes from the midnight of a first weekday; the length of a day and of the week are
constants. The sentinel `_END_OF_DAY` of a window that goes on to midnight is `DayLength`: the calculations
resolve it to the next midnight, and the microsecond that the working-hours test lacks is not visible in
whole minutes. The windows of a day and the segments of a ticket are sets, and what the loops over them
accumulate is said by its result: a sum over windows (`SumOver`), the first segment by whose end the target
is reached, the window in which the last minute is found. If no window within `Lookahead` days has it,
`AddMinutes` is `Unreachable`, the `RuntimeError`, and `calculate_sla` fails with it, whichever clock it
was. The order of the loops is `Precedes`, the order of the sorted windows on each day. One PATCH changes
one field and no two carry the same instant. A clock that stopped in the minute of the opening has one empty
segment from there; between the two instants of that minute the code's fallback (`:96`) is the same, but
compares a naive `created_at` with aware instants if the database should return one, which PostgreSQL does
not. Priority, policy and schedules stay as they are during a behaviour; the code applies whatever they are
now to the whole past of the ticket.

### Conventions of the modules below

A *service* is an operator of the same name that returns what the service decides on what it reads: an
exception, or one write. A *route* is an action of the same name: who may call it (`require_role`), and
which exception becomes which status; what no `except` names becomes a 500 (`main.py` registers no
handlers). The write itself happens in a later step (`Commit`), so that other requests come in between;
then `refresh` may find the row gone. A step that only decides an answer and is not followed by another
read is one step. Explicit `null` for NOT NULL columns is an input of `Intake` and of `Registry`; NUL
characters, which the database refuses in any text, are not an input.

### `Registry` (`MCRegistry`)

| model | code |
|---|---|
| `rows[table]` | the rows of ten tables: primary key, the columns a check looks up (`key`), the role of a user |
| `call[s]` | a request: where it is, what the service decided (`plan`), its status, what a suggestion has read |
| `create_*`, `update_*`, `add_*`, `remove_*`, `link_asset`, ... | the service functions of these names |
| `add_team`, `edit_category`, `register_user`, ... | the routes |
| `Commit`, `IntegrityError`, `Refresh` | flush and commit; the unique index; `session.refresh` |
| `suggest_affected_assets` | the second read of the impact suggestion |
| `raced`, `overtaken` | ghosts: writers between whose reads and commit another write of the table came |

A body that its schema takes and the table does not (an explicit `null` for a column that may not be NULL,
minutes of more than 32 bits) becomes a plan `Unfit`, which the flush refuses with a 500 (`Refused`); what
else is in the body does not matter then. `Indexed` are the tables with a unique index or a natural key;
`assetrelationship` has none, and subcategories have no key. Descriptions, minutes and references between
rows are not told apart, and nothing refers to a row that goes away (teams, users, assets and categories are
never deleted).

### `KnowledgeBase` (`MCKnowledgeBase`)

| model | code |
|---|---|
| `articles`, `parent`, `links`, `resolved` | the `article` rows by id, the category of each subcategory, `ticketarticle`, tickets with `resolved_at` |
| `create_article`, `update_article`, `link_article`, `set_resolution`, `unlink_article` | the services; `update_article` writes the columns that were sent and differ |
| `UnmarkOthers` | the second read of `set_resolution`: the other marked links as they are then |
| `get_articles`, `read_article`, `search_knowledge_base`, `read_ticket_articles`, `read_article_suggestions`, `ReadOn` | the reading routes; `ReadOn` is the second statement of those that have one |
| `ResolveTicket`, `update_subcategory` | what other parts of the system do meanwhile |
| `seen`, `raced`, `excused` | ghosts: what was published since the request began; tickets and articles whose last writers overlapped |

Text is not told apart: a search by words, or a match with the words of a title, may find any subset of
what it looks through, in any order.

### `Conversation` (`MCConversation`)

| model | code |
|---|---|
| `comments`, `mentions`, `attachments` | the rows |
| `sent[c]` | the events about a comment handed to the broker, in order |
| `objects`, `bucket`, `runner` | the object store; the processes that run `create_bucket` |
| `add_comment`, `CommitComment`, `CommitMentions`, `dispatch_event` | `create_comment`, commit by commit and event by event |
| `RefuseMentions` | the primary key of `commentmention` refuses a user mentioned twice |
| `add_attachment`, `put_object`, `CommitAttachment` | `upload_attachment` |
| `Fail` | the database, the broker, the store or the process fails between two steps |

Storage keys carry the microsecond of the upload; two uploads are assumed not to share it.

### `Intake` and `Reports` (`MCReports`)

| model | code |
|---|---|
| `rows`, `lastId` | `triagerule`, `servicecatalogitem`, `catalogitemfield` by id |
| `tickets`, `answers` | `ticket` rows as far as intake and reports read them, `ticketcataloganswer` |
| `today`, `Closed` | the clock in days; which queues are outside their hours then |
| `Matches`, `Act`, `apply_triage_rules` | the loop over the rules, on the ticket as the rules before have left it |
| `create_ticket`, `CreateTicket`, `CommitTicket`, `CommitAnswers` | `create_ticket`, and `create_ticket_from_catalog` up to each of its two commits |
| `create_rule` ... `remove_field`, `add_triage_rule` ... | services and routes of rules, items and fields |
| `view` | a reporting request; its answer is gone with the next step |
| `_count_by`, `_sla_compliance_by`, `_average_time_by` | the functions of `dashboard_service` |
| `volumes`, `Following`, `sla_table`, `ReadClocks` | `get_dashboard_overview`: the rows and their counts, then four tables one after the other, each with clocks of its own |
| `MayTurn`, `Turned` | what `calculate_sla` may make of a row loaded before: it has run out since, or an edit has changed what else it reads |
| `Moment`, `Date` | an instant by its day in UTC, which the queries compare, and its date with the caller's offset, which the buckets use |
| `_bucket_key`, `_enumerate_buckets`, `get_kpi_trend`, `get_technician_kpis` | `kpi_service`; `Seen` and `Stale` are the rows the session keeps from its first statement |
| `Matching`, `Position`, `Pages`, `ReadAgain` | `get_tickets_overview`: filters, order with ties in any order, total and page in two statements; slices with negative bounds, which the database refuses and Python does not |
| `export_*`, `Value` | the lines of the files and what they carry |

`refresh` is part of `Commit` in `Intake`. A PATCH in `Intake` may carry a NULL: it clears a column that may
be NULL and is a 500 for one that may not. `triage` is a function from the number of rules applied to the
ticket they leave; the constants that come in (`Stock`, the inputs) are assumed to be what earlier requests
and the schemas can leave (`IntakeAssumption`). An item is active from its creation until a PATCH says
otherwise.

In `Reports` days, weeks and months are numbers and constants; minutes and percentages are left out, a report
is the counts they are made of, and an average in a file is only there or not. The time of day is not told
apart: a ticket of the first or last day of a period is in it. The verdict of a clock is part of the ticket
(`SlaClock` has how it is computed): it runs out (`RunsOut`), is settled by the resolution (`ResolveTicket`)
or changes with an edit of a policy, a schedule or the history (`EditPolicy`). The dashboard keeps its rows
and asks for every clock in every table: `view.edited` has the tickets whose clocks an edit may have changed
since, and for these each table may read either verdict; a PATCH that is recorded while the dashboard is
made is such an edit. A running clock may have run out by the next table without any edit. The other reports
ask for each clock once. Policies are edited, not added (`Policed`). `resolved_at` keeps its first value;
PATCHes that move a ticket between queues or reopen it are in `TicketLifecycle`. A `skip` or `limit` beyond
64 bits, a 500 of the driver, is not an input.

## 4. Runs

| run | instance | what it shows |
|---|---|---|
| `lifecycle_concurrent` | 1 ticket, 2 sessions, 2 PATCHes, 1 crash | Although commits overwrite each other's statuses, timestamps always match the status and are always explained by a history entry; events never announce what is not committed, nor the same entry twice; a decision goes only over what is on record, and a level goes down only by an administrator or over a raise. |
| `lifecycle_serial` | 1 ticket, 1 session, 3 PATCHes, 2 technicians of two levels, items with and without approval | The promises of the guards when requests do not overlap: no silent approval, nobody on a ticket above his level; the history implements `AuditTrail`. |
| `lifecycle_timeout` | 2 tickets, 2 sessions, 1 crash, fairness | Every overdue pending ticket is decided: an abandoned or crashed sweep is made good by the next. |
| `webhook_delivery` | 1 event, 2 subscriptions with and without a url that can be parsed, 2 retries, 1 crash, fairness | Retries are bounded and end with the answer; the log explains every duplicate; every delivery ends, and with an answer or the last retry, unless its own process is lost, the subscription is not active or the url cannot be parsed. |
| `sla_overlap` | 2 tickets, 2 sweeps, 1 change, 1 loss, 4 readings of an edit | No alert is swallowed; a new ticket is announced once per lost sweep; sweeps that do not overlap announce each transition at most once, and at most twice more per reading that is no status of the clock. |
| `sla_progress` | 1 ticket, 2 sweeps, 1 change, 1 loss, 4 readings of an edit, fairness | The recorded statuses catch up with the clocks of an active ticket. |
| `sla_clock` | 1 team, week of 2 days of 3 minutes, 7 kinds of schedule, 3 changes, 6 instants | The clocks rebuilt from the history are the minutes the ticket lived, the due date is exact to the minute and fails to be found exactly where the lookahead is too short, the working-hours test is what the rows say, and status and due date agree. |
| `registry` | 2 sessions, 3 requests, a desk after its first day | Keys that are checked and indexed are unique; a duplicate relationship always has its race, and so has a 500, unless it is an unchecked rename or a body that the table does not take; the impact suggestion is exact. |
| `knowledge_base` | 2 sessions, 1 ticket, 2 articles, 1 subcategory, 3 requests | One solution per ticket, hidden drafts and fitting subcategories, except where two requests that overlapped explain it. |
| `conversation` | 2 sessions, 2 runners, 1 ticket, 5 lists of mentions, 3 requests, any failure | What is announced is stored and said once; a 201 is the whole story; a row has its object, an orphan object has its failed upload. |
| `service_desk` | 2 sessions, 3 users, 2 queues, 5 days, 3 requests from 4 desks, 3 periods, 3 filters, 3 pages | The last matching rule decides each column; answers keep their questions; dashboards, series, figures, pages and files add up while tickets come in, clocks run out and policies are edited. |
| `find_double_decision` | 1 ticket, 2 sessions | Two decisions of one pending ticket (section 6). |

Bounds. One ticket is enough for the safety runs of the lifecycle: no handler relates two tickets, except
the sweep, which the timeout run gives two. Two sessions (two sweeps) give every overlap of two, and a third
can only repeat what one of the two does. `MaxPatches`, `MaxCrashes`, `MaxChanges` and `MaxLost` are
counters in the guards; the rest of the state is finite by itself. Two to three PATCHes reach a raised level
that is lowered again, a reopened ticket, and a reassignment between them. Two tickets let two sweeps lock
rows in opposite orders. One event and two subscriptions show a fan-out that stops half-way; a second event
would share nothing with the first. `max_retries` is 2 in the run and 3 in the code: one retry that is not
the last and one that is; the theorems hold for every number. A single change of the clocks is enough to be
seen by one sweep and missed, mixed or overwritten by the other; the theorems hold for every number.
`EditReadings` are no SLA and three mixtures of quiet, at risk and breached. A week of two days of three
minutes has shifts inside a day, shifts that touch midnight, overnight shifts and one that wraps around the
end of the week; a ticket opened in the first day lives to the end of the week, and its due dates lie in the
next; three changes are a pause, its end and a resolution, or two changes of team around one. `Lookahead` is
four days (3 650 in the code), so that a schedule with little in its week does not hold the larger target
and the `RuntimeError` is reached, while the others find their due dates. Two requests make every race of
the reference tables, over a desk where every kind of row but schedules, policies and relationships exists
already; a third (`MaxCalls`) comes after the race and meets what it left: a relationship stored twice, or a
link, its mark and a mark of the other, or a form edited while it is filled in. The desks of `service_desk`
are chosen so that a rule moves a ticket into a queue with other hours, a keyword moves it back, and pages
have ties; the periods so that weekly series begin early and late in their week, and that the caller's date
is ahead of UTC at one end and behind at the other; the pages have an offset, a negative offset and a
negative limit. Deadlock checking is off where the bounds stop the instance; the lifecycle instances have no
such end.

Fairness (`FairSpec` of each module). Lifecycle: weak fairness of the steps a session takes by itself (a
request that was accepted goes on, unless it crashes), and of starting the sweep (Celery Beat, every
300 s). Nothing is assumed of administrators, technicians, clients or of the deadline. The timeout run
has no PATCH: a technician can put a ticket back into the pending status and take it out again for
ever. Webhooks: a process goes on with what it began, the broker hands each task to some worker, and
the HTTP client returns (it has a timeout). SLA: Celery Beat goes on queueing sweeps (900 s), workers
go on, and the database resolves deadlocks (within `MaxLost`, as crashes do).

Every property of a passing run has a mutant, a plausible bug of the mapped code kept beside the
definition it replaces and marked `Fault:`, that makes TLC refute the property.

## 5. Proofs

Every safety property and action property of a passing run is a theorem, for every value of the
constants, from the one assumption of the module. Theorems named `Serial...` and the two beside them
(`ApprovalNeverSilent`, `AssigneeAlwaysQualified`) also assume one session (`Alone`); four of the five theorems
about `SlaClock` assume `RowsApart` (below).

`TicketLifecycleProofs` (any number of tickets, sessions, technicians, items and bodies):

* `TypeCorrect`: `Spec => []TypeOK`
* `OutcomeAlwaysStamped`: `Spec => []OutcomeStamped`
* `OutcomeAlwaysExplained`: `Spec => []OutcomeExplained`

None of these is inductive: what a commit leaves depends on what its session loaded some steps ago.
`IInv` adds `SessionInv`: a session that has loaded a ticket holds a row whose timestamps are still in
the table (`Holds`; timestamps only ever appear, `Grows`) and whose pending write is a `SafeWrite`:
a column it changes brings its timestamp along, and it clears none. From these two a commit over any
row keeps `Stamped` (`CommitsRow`), and a timestamp it adds comes with the history entry of the same
transaction (`CommitsHistory`); the second commit of a catalog request adds none
(`PromotionNeedsNoHistory`). There is one lemma per action, and `NextInv` puts them together.

* `EventsAlwaysCommitted`: `Spec => []EventsAreCommitted`

`EventsInv` counts, per ticket and status change: the events in the outbox and the ones that sessions
have still to send are no more than the entries of the history. A commit writes the entry and makes the
event one of those to be sent, in one step; sending moves it; a crash loses it.

* `DecisionsAreOfPending`: `Spec => DecidesAwaiting`, `AdminsDowngrade`: `Spec => OnlyAdminDowngrades`

for any number of sessions that overlap. `GuardInv` says of every session what its guard has seen: what a
technician is about to write is not below the level loaded, a decision was loaded pending (`Guarded`), and
while a decision is under way its ticket is pending or the last entry of its history is the status it has
(`OnRecord`). Every commit that takes the ticket out of pending writes that entry in the same transaction
(`GuardWrites`, `GuardPatches`, `GuardDecides`); the second commit of a catalog request writes none, and makes
it pending (`GuardPromotes`).

The same module goes on with requests that are served one after the other:

* if there is one session: `SerialHistoryIsTrail` (`KeepsAuditTrail`), `ApprovalNeverSilent`
  (`NoSilentApproval`), `AssigneeAlwaysQualified` (`AssigneeNotUnderqualified`)
* `TrailContinuous`: the specification of the trail implies that its entries link up (`Continuous`), and
  `SerialTimelineContinuous`: so do the histories of the tickets, if there is one session

The first is the refinement that `lifecycle_serial` checks on one ticket. What it needs beyond `IInv` is
`Fresh`: what the only session has loaded is what the table holds, and a ticket that waits for its second
commit has no history. Then the UPDATE writes the row the session has in memory (`WritesNew`), the
history rows of a commit are those of the trail (`LogRowEntries`), and every action is an `Open`, a
`Record` or leaves all trails alone. Two sessions are enough to lose it (section 6).
`SerialTimelineContinuous` follows: the timelines the SLA clocks rebuild have no gap while requests do
not overlap.

The other two add `SerialInv`: what a session is about to write is `Allowed` by the guards on the row it
loaded, and by `Fresh` this is the row in the table. So a technician who fits (`Fits`) keeps fitting, and
a row that needs approval is pending or has a history that says how it stopped (`Approved`).

`WebhookDeliveryProofs` (any events, subscriptions, retries, crashes):

* `TypeCorrect`, `DeliveryEnds` (`RetriesEndWithAnswer`), `NoSilentDuplicate` (`DuplicatesExplained`)

`IInv` ties the place of a task to the log and to what the receiver may have got: a task that is queued
for the n-th time has n unreachable attempts on record and nothing else, one that is about to record
has had at most one request more than are on record, and one that ended has at most `MaxRetries + 1`.
The step lemmas reduce every action to the one pair it moves (`MoveTask`, `GotoKeeps`).

`SlaMonitorProofs` (any tickets, workers, changes, losses):

* `TypeCorrect`, `NoAlertSwallowed` (`RecordedIsAnnounced`), `NewTicketAlertedOnce` (`FirstAlertOnce`),
  `OneAlertPerTurn` (`OneAlertWhenAlone`)

`IInv` says of each sweep that what it has written and what it looked at has been announced or is still
in `due`, and that a row it has written is written by no other sweep (the lock). A commit merges columns
announced by this sweep into a row announced by others, so the result is announced. For the count: a
sweep that announces a ticket without a committed row holds the inserted row, so there is one such
sweep, and all earlier announcements were by sweeps that were lost. For sweeps that do not overlap
`AloneInv` adds an account (`Paid`): the alerts said, with the ones the clock may still need to get from the
recorded status over the one read to the one it shows now, are no more than its `Turns`, the times it
became at_risk or breached and twice the times something else was read of it. A reading that is what the
clock shows costs nothing; one that is not pays for its own alert and for the one of the way back.

`RegistryProofs` (any desk, sessions, requests):

* `TypeCorrect`, `KeysStayUnique` (`UniqueKeys`), `DuplicatesNeedARace` (`DuplicatesAreRaces`),
  `ServerErrorsNeedARace` (`ServerErrorsExplained`), `SuggestionsAlwaysExact` (`SuggestionsExact`)

`IInv` says of each request that its decision is still `Needed` unless it was overtaken: the relationship it
inserts is still free, the row it changes is still there, and no index stands in its way unless it renames
without a look. What a service decides is one fact per service (`TeamDecisions`, `DeskDecisions`, ...): an
exception of its list (`Raises`), which its route maps, or a write that is needed now (`ServeKeeps`), or a
body that is unfit. From there every commit of another session either leaves the reason alone or marks the
request as overtaken, and a write over a key in use is refused by its index.

`ConversationProofs` (any sessions, users, lists of mentions, failures):

* `TypeCorrect`, `AnnouncedAlwaysExactly` (`AnnouncedExactly`), `AttachmentsAlwaysWhole` (`AttachmentsWhole`)

`IInv` says of each request what it has stored and sent so far: the events of its comment are a prefix of
those it will send (`Progress`), of a comment and mentions that are stored (`Stored`), and no two requests
work on one comment (`Apart`). What was sent of a comment is `Honest`: true, and sent once. An upload
commits its row only for an object that is in the bucket.

`KnowledgeBaseProofs` (any library, sessions, requests):

* `TypeCorrect`, `OneSolution` (`SingleSolution`), `DraftsStayHidden` (`DraftsHidden`),
  `SubcategoryStaysFit` (`SubcategoryFits`)

`IInv` adds that links have one row per key and at most one mark (`OneMarked`) per ticket whose marks did
not overlap, and that what a request will write is still right (`WriteOK`): a mark that nobody overtook
clears every other marked link, an edit that nobody overtook leaves the row fitting. A request that reads
has in `seen` all that was published while it ran, so its second statement finds no draft that is not.

`ReportsProofs` (any desk, sessions, users, queues, days, weeks and months, pages):

* `DeskIsTyped` (`TypeOK`), `AnswersAlwaysKeepQuestions` (`AnswersKeepQuestions`), `TriageLetsTheLastWin`
  (`TriageLastWins`), `ReportsAlwaysAddUp` (`ReportsAddUp`)

`IInv` says of each request which rows it has read that are still there and what it may store (`CallOK`),
and that no two requests have created the same ticket (`Apart`). That an answer keeps its question needs
that items are never deleted, ids never used again and fields never moved to another item (`Grows`): the
foreign key refuses an answer to a question that is gone, and the removal of one that is answered, and
nothing can take the place of a question in between. Triage is a function of the rank of a rule: by
induction over the ranks, each column of the result comes from the last rule that matched the ticket as the
rules before had left it. A report is a set of counts, and each claim about it a sum over disjoint parts
(`SumOfParts`): the groups of a dashboard, the points of a series. For the series this takes the arithmetic
of the cursor: the weeks it visits are those it can reach by whole weeks, and a month is never skipped, so
that only the first and the last bucket can be missing, and when. The tables of a dashboard are compared
through the verdicts of the rows it keeps: between two tables these change only by running out, which only
makes the set of the final clocks grow, or for edited tickets. Reports of two statements add `DeskInv`: what
the session keeps from the first statement, and what other requests may have done until the second.

`SlaClockProofs` (any lengths of the day and the week, teams, schedules, policies, moments of opening,
changes):

* `HoursAlwaysAreRows` (`HoursAreRows`), with no hypothesis
* `ElapsedAlwaysLived` (`ElapsedIsLived`), if `RowsApart`
* `ClocksAreTyped` (`TypeOK`), `DueIsAlwaysExact` (`DueIsExact`), `AlwaysBreachedWhenDue`
  (`BreachedWhenDue`), if `RowsApart`

`RowsApart`: no minute of the week belongs to two rows of a team. The code accepts such rows when an
overnight row runs into one of the next day, counts their common minutes twice (section 6) and the
properties then fail: the hypothesis is needed. `MCSlaClock` has TLC evaluate it on the constants of the
run (`ScheduleAssumption`). Nothing is assumed of the targets. The days that `add_business_minutes` looks
ahead may hold fewer working minutes than it has to find (`OutOfReach`), and then the code raises
`RuntimeError`: `TypeOK` says that calculating the clocks fails for no other reason, and `DueIsExact` that a
running clock has no due date exactly then.

The argument goes from the code to the ghosts in five parts. (1) The windows of a weekday, with the tail
an overnight row leaves to the next day, hold exactly the minutes its rows mean (`HoursOfRows`), and
windows that do not meet hold as many minutes as their lengths add up to (`MinutesAreHours`). (2) The
segments rebuilt from the history partition the life of the ticket, and in each the status and the team
are those of every minute (`SegmentsHold`); so what the code adds up is the number of minutes that
`Counted` has (`ElapsedIsCounted`). (3) `IInv` ties the ghosts to these: `lived` is the number of counted
minutes up to the end of the clock, and `reached` the end of the minute that made the target whole. Time
adds one minute, and a change adds a row that says nothing new of the time before it (`PastStays`,
`EndStays`). (4) The projection of a due date finds the minute with which the goal is complete
(`FoundIsHours`, `AddFinds`), the only one (`FoundOnce`), if the days it looks at have so many, and nothing
otherwise. (5) A due date in the past is the minute `reached` (`DueReached`),
one in the future counts the minutes left from now (`DueAhead`), and a status that still runs belongs to
a clock whose minutes are below its target.

Only model-checked: liveness (`WebhookDelivery`, `SlaMonitor` and the timeouts of the approvals), as there
are no proof rules for fairness and ENABLED. Where an invariant needs an induction over data (ranks of
rules, sums over sets, segments), the modules prove the induction they use for a set of numbers, from
the existence of a least element, as the theorems of the library take an operator.

## 6. Findings

With a run:

* Two decisions of one pending ticket both pass the guard (`find_double_decision`). What remains true of the
  guard is `DecidesAwaiting` (section 3).

Seen while modelling, where the code disagrees with what the repository says of it:

* Overlapping PATCHes each record the value they loaded, so the history does not chain, although
  `sla_calculation_service.py:67` rebuilds timelines "do created_at ao valor atual" from it.
* `team_id` and `assigned_to` in one PATCH check the membership in the old team
  (`ticket_service.py:184`); the docstring at line 174 says the technician "pertence à equipe do chamado".
* Two sweeps that overlap, or one after a sweep that was rolled back, announce a transition twice;
  `models/sla_notification_state.py:3` promises "um único alerta na transição de estado".
* Where an overnight shift runs into a shift of the next day, the minutes in both count twice
  (`business_time.py:72`) and a clock is breached before its due date.
* `set_resolution` says "Garante um único artigo de solução por chamado" (`ticket_article_service.py:113`);
  two marks that overlap leave two, until the next mark.
* `_enumerate_buckets` says "Gera todos os buckets do intervalo" (`kpi_service.py:44`), but the weekly
  cursor misses the last week unless the period begins early in its week; the tickets of that week are in
  no point of the series. Dates with an offset lose more: the ends of the interval are dates of the caller
  (`:48`), the keys of the tickets are in UTC (`:32`), so that the first bucket can be missing when the offset
  is ahead of UTC and the last when it is behind. `ReportsAddUp` says that no other bucket is.
* `get_kpi_trend` ends in a 500 when a ticket of the period is resolved between its two statements: the
  session keeps the row without `resolved_at` (`kpi_service.py:109`).
* A sweep that looks at a ticket edited since its query judges the loaded status and `resolved_at` by the new
  history and policy, and may record and announce a status that the ticket never had; `OneAlertWhenAlone`
  bounds what this adds.
* `DuplicateTeamNameError` and `DuplicateCategoryNameError` are documented for "criar/renomear"
  (`team_service.py:16`, `category_service.py:25`), but `update_team` and `update_category` do not look:
  a rename to a name in use is a 500.
* The routes of catalog answers and attachments comment that the visibility check "levanta 404"
  (`ticket_controller.py:294`, `:412`, `:428`), but it raises outside any `try`: a ticket that does not
  exist, or of somebody else, is a 500.
* `models/triage_rule.py:14` says at least one action is "validado na camada de service"; a PATCH can
  clear them all. `ServiceCatalogItemUpdate` lacks the rule that the two timeout fields go together.
* A category and a subcategory of a catalog item that no longer fit (the subcategory was moved) make the
  item un-requestable with a 500: its route does not expect that exception.

Seen while modelling, in the models but without a run of their own:

* A webhook url that httpx cannot parse is accepted (`schemas/webhook_subscription.py:13`), and every delivery
  to it ends with an exception, without a `webhook_delivery` row and without a retry (`webhook_tasks.py:55`).
* An explicit `null` in a PATCH of a team, category, subcategory, asset or policy passes its schema and is a 500
  if the column is NOT NULL; so are minutes of a policy above 32 bits.
* The tables of one dashboard can disagree: each asks for every clock anew (`dashboard_service.py:58`, `:104`).
  A negative `skip` or `limit` of the overview (`ticket_controller.py:180`) is a 500 without `sla_status`, and a
  slice from the end with it.
* A target that ten years of a team's hours do not hold makes `calculate_sla` raise for the ticket
  (`business_time.py:105`), and with it the sweep over all tickets.
* Two relationships of two assets with one meaning are stored if their requests overlap: the check
  (`asset_service.py:123`) has no index behind it.
* An escalation takes a ticket down from a level that another session has raised it to since it was loaded.
* Lowering a level keeps the assignee of the level above.
* Closed and cancelled tickets can be updated and reopened, and a technician can take a ticket out of
  the pending status with a PATCH, without a decision.
* A crash between the two commits of a catalog request, or a question removed meanwhile, leaves an open ticket
  without item and answers, which may have needed approval.
* A subscription with deliveries on record cannot be deleted (the foreign key refuses, a 500), and the
  attempt for one that was deleted meanwhile is not on record.
* The clocks of a reopened ticket stay at its first `resolved_at`; a ticket closed without passing
  through `resolvido` keeps a running resolution clock. An answer in the off-hours after the very minute
  of the target turns a breached clock into a met one (`>=` while it runs, `<=` once it has stopped).
* The average time of resolution counts open tickets whose resolution clock has run out
  (`dashboard_service.py:116`), which compliance leaves out (`:55`): the two are about different tickets.

## 7. Not modelled

* System settings: one row, seeded by a migration and never deleted, so its check-then-insert never
  inserts; the PATCH overwrites a number.
* Authentication: stateless tokens and password hashes. Users cannot be edited, so roles and levels are
  constants of the other modules.
* HTTP wiring, schema validation, migrations, deployment: pure I/O or packaging. The constraints the
  migrations create are in the models of the services that rely on them.
* Plain listings (`list_*`, `get_*` of one table) that filter nothing a property is about.
* Edits of schedules, policies and working hours during the life of a ticket (section 2).
