---------------------------- MODULE SlaMonitor ----------------------------
(***************************************************************************)
(* The periodic check of the SLA clocks.  Celery Beat queues a sweep every  *)
(* 900 s; a sweep walks over the active tickets, compares each clock with    *)
(* the status last seen, hands an alert to dispatch_event when it has        *)
(* become at_risk or breached, and commits what it saw in ONE transaction at *)
(* the end.  Nothing keeps two sweeps apart but the row locks of the         *)
(* database, and an alert cannot be taken back when a sweep is rolled back.  *)
(***************************************************************************)
EXTENDS Integers, Sequences

CONSTANTS
    Ticket,
    Worker,         \* Celery workers: at most so many sweeps overlap
    Quiet,          \* the statuses that are not announced: pending, paused, met
    EditReadings,   \* bound: what calculate_sla may return because of an edit
    MaxChanges,     \* bound: changes of the clocks in a behaviour
    MaxLost,        \* bound: crashes, and deadlocks the database has to resolve
    NoSla,          \* what calculate_sla returns without a policy
    Absent,         \* no row
    Untouched,      \* not written by this sweep
    Null, Keep      \* NULL;  a column an UPDATE leaves alone

Alert == {"at_risk", "breached"}
Status == Quiet \cup Alert
Clock == {"response", "resolution"}

\* What calculate_sla returns: two clocks, or nothing without a policy.
Reading == [Clock -> Status] \cup {NoSla}

ASSUME MonitorAssumption ==
    /\ EditReadings \subseteq Reading
    /\ MaxChanges \in Nat /\ MaxLost \in Nat
    /\ Quiet \cap Alert = {} /\ {Null, Keep} \cap Status = {} /\ Null # Keep
    /\ NoSla \notin [Clock -> Status]
    /\ Absent \notin [Clock -> Status \cup {Null}]
    /\ Untouched \notin [Clock -> Status \cup {Null, Keep}]

VARIABLES
    active,     \* tickets whose status is not in STATUS_ENCERRADOS
    clocks,     \* what calculate_sla returns for a ticket now
    state,      \* the slanotificationstate table, as committed
    sweep,      \* what each worker is doing
    alerts,     \* statuses handed to dispatch_event, by ticket and clock
    entered,    \* how many times a clock became at_risk or breached, while sweeps were alone
    changes,
    lost,       \* sweeps that were rolled back
    overlapped, \* some sweep has begun before another was over
    mixed       \* how often a sweep alone read for a clock a status that it did not have

vars == <<active, clocks, state, sweep, alerts, entered, changes, lost, overlapped, mixed>>

Row == [Clock -> Status \cup {Null}]
Write == [Clock -> Status \cup {Null, Keep}]

\* todo holds the tickets that the query loaded and that are still to be looked at; old
\* those of them that were edited since, or whose policy or schedules were.
SweepState ==
    [pc : {"idle", "next", "insert", "alert", "flush"}, todo : SUBSET Ticket, old : SUBSET Ticket,
     ticket : Ticket \cup {Absent}, seen : Reading, loaded : Row \cup {Absent},
     due : SUBSET Clock, rows : [Ticket -> Write \cup {Untouched}]]

StatusOf(reading, c) == IF reading = NoSla THEN Null ELSE reading[c]

Blank == [c \in Clock |-> Null]

Idle == [pc |-> "idle", todo |-> {}, old |-> {}, ticket |-> Absent, seen |-> NoSla, loaded |-> Absent,
         due |-> {}, rows |-> [t \in Ticket |-> Untouched]]

Init ==
    /\ active = Ticket
    /\ clocks \in [Ticket -> EditReadings]
    /\ state = [t \in Ticket |-> Absent]
    /\ sweep = [w \in Worker |-> Idle]
    /\ alerts = [t \in Ticket |-> [c \in Clock |-> <<>>]]
    /\ entered = [t \in Ticket |-> [c \in Clock |-> IF StatusOf(clocks[t], c) \in Alert THEN 1 ELSE 0]]
    /\ mixed = [t \in Ticket |-> [c \in Clock |-> 0]]
    /\ changes = 0 /\ lost = 0 /\ overlapped = FALSE

--------------------------------------------------------------------------
(* The clocks *)

\* So far no sweep has begun before another was over, and none was lost: the ghosts entered
\* and mixed count only as long as this holds.
Alone == lost = 0 /\ ~overlapped

\* The clocks of t turn to a reading.
TurnTo(t, reading) ==
    /\ changes < MaxChanges
    /\ clocks' = [clocks EXCEPT ![t] = reading]
    /\ entered' = [entered EXCEPT ![t] = [c \in Clock |->
          LET new == StatusOf(reading, c)
          IN  entered[t][c] + IF Alone /\ new \in Alert /\ new # StatusOf(clocks[t], c)
                              THEN 1 ELSE 0]]
    /\ changes' = changes + 1
    /\ UNCHANGED <<state, alerts, lost, overlapped, mixed>>

\* The minutes of one clock come to the threshold or to the target.
TimePasses(t, c) ==
    /\ clocks[t] # NoSla
    /\ \E status \in Alert :
          /\ clocks[t][c] \in Quiet \/ (clocks[t][c] = "at_risk" /\ status = "breached")
          /\ TurnTo(t, [clocks[t] EXCEPT ![c] = status])
    /\ UNCHANGED <<active, sweep>>

\* A PATCH of the ticket or an edit of its policy or of a schedule: the clocks turn to
\* anything, or the ticket is closed, cancelled or reopened.  A sweep that has loaded the
\* ticket and not looked at it holds a row that is older than what it will read.
Edit(t) ==
    /\ \/ (\E reading \in EditReadings : TurnTo(t, reading)) /\ UNCHANGED active
       \/ TurnTo(t, clocks[t]) /\ active' = (active \cup {t}) \ (active \cap {t})
    /\ sweep' = [w \in Worker |-> [sweep[w] EXCEPT !.old = @ \cup ({t} \cap sweep[w].todo)]]

--------------------------------------------------------------------------
(* One sweep *)

Step(w, s) == sweep' = [sweep EXCEPT ![w] = s]

\* The transaction is rolled back; the alerts that were sent stay sent.
RollBack(w) ==
    /\ Step(w, Idle)
    /\ lost' = lost + 1
    /\ UNCHANGED <<state, alerts>>

SweepStart(w) ==
    /\ sweep[w].pc = "idle"
    /\ Step(w, [Idle EXCEPT !.pc = "next", !.todo = active])
    /\ overlapped' = (overlapped \/ \E v \in Worker : sweep[v].pc # "idle")
    /\ UNCHANGED <<active, clocks, state, alerts, entered, changes, lost, mixed>>

LastStatus(row) == IF row = Absent THEN Blank ELSE row

\* Fault: the first observation of a clock is not taken for a transition.
Due_Known(reading, last) ==
    {c \in Clock : reading[c] \in Alert /\ last[c] # Null /\ reading[c] # last[c]}

\* Fault: the last status is compared as "was an alert", not by value.
Due_Renewed(reading, last) == {c \in Clock : reading[c] \in Alert}

Due(reading, last) == {c \in Clock : reading[c] \in Alert /\ reading[c] # last[c]}

\* Fault: the session does not autoflush.
AfterLook_NoAutoflush(row, due) == IF due = {} THEN "flush" ELSE "alert"

\* A new state is inserted when dispatch_event first queries (autoflush), an old one
\* is updated after the alerts.
AfterLook(row, due) ==
    IF due = {} THEN "flush" ELSE IF row = Absent THEN "insert" ELSE "alert"

\* calculate_sla takes the status, the priority and resolved_at from the row as the query
\* loaded it, and policy, history and schedules from statements of its own, now.  What
\* it makes of a ticket that was edited in between may be any reading: the one of the
\* query, the one of now, or one the ticket had at no time.
Readings(w, t) == {clocks[t]} \cup IF t \in sweep[w].old THEN EditReadings ELSE {}

LookAt(w, t, reading) ==
    LET due == Due(reading, LastStatus(state[t]))
        left == [sweep[w] EXCEPT !.todo = @ \ {t}, !.old = @ \ {t}]
    IN  IF reading = NoSla
        THEN Step(w, left) /\ UNCHANGED mixed
        ELSE /\ Step(w, [left EXCEPT !.ticket = t, !.seen = reading, !.loaded = state[t],
                           !.due = due, !.pc = AfterLook(state[t], due)])
             /\ mixed' = [mixed EXCEPT ![t] = [c \in Clock |->
                   mixed[t][c] + IF Alone /\ reading[c] # StatusOf(clocks[t], c) THEN 1 ELSE 0]]

Look(w) ==
    /\ sweep[w].pc = "next"
    /\ \E t \in sweep[w].todo : \E reading \in Readings(w, t) : LookAt(w, t, reading)
    /\ UNCHANGED <<active, clocks, state, alerts, entered, changes, lost, overlapped>>

\* A row that another transaction has written is locked until that one ends.
Locked(w) == \E v \in Worker \ {w} : sweep[v].rows[sweep[w].ticket] # Untouched

\* The primary key: the row was absent when it was looked for and is there now.
Conflict(w) ==
    LET s == sweep[w]
    IN  s.loaded = Absent /\ s.rows[s.ticket] = Untouched /\ state[s.ticket] # Absent

\* One INSERT or UPDATE, then the sweep goes on at pc.
Send(w, write, pc) ==
    /\ ~Locked(w)
    /\ IF Conflict(w)
       THEN RollBack(w)
       ELSE /\ Step(w, [sweep[w] EXCEPT !.rows[sweep[w].ticket] = write, !.pc = pc])
            /\ UNCHANGED <<state, alerts, lost>>
    /\ UNCHANGED <<active, clocks, entered, changes, overlapped, mixed>>

Insert(w) ==
    /\ sweep[w].pc = "insert"
    /\ Send(w, Blank, "alert")

SendAlert(w) ==
    /\ sweep[w].pc = "alert"
    /\ LET t == sweep[w].ticket
           c == IF "response" \in sweep[w].due THEN "response" ELSE "resolution"
           due == sweep[w].due \ {c}
       IN  /\ alerts' = [alerts EXCEPT ![t][c] = Append(@, sweep[w].seen[c])]
           /\ Step(w, [sweep[w] EXCEPT !.due = due, !.pc = IF due = {} THEN "flush" ELSE "alert"])
    /\ UNCHANGED <<active, clocks, state, entered, changes, lost, overlapped, mixed>>

\* Fault: only a status that is announced replaces the one on record.
Changed_Alerts(s) == {c \in Clock : s.loaded = Absent \/ s.seen[c] \in Alert \ {s.loaded[c]}}

Changed(s) == {c \in Clock : s.seen[c] # LastStatus(s.loaded)[c]}

\* No statement is sent for a row that has not changed.
Flush(w) ==
    /\ sweep[w].pc = "flush"
    /\ LET changed == Changed(sweep[w])
       IN  \/ /\ changed = {}
              /\ Step(w, [sweep[w] EXCEPT !.pc = "next"])
              /\ UNCHANGED <<active, clocks, state, alerts, entered, changes, lost, overlapped, mixed>>
           \/ /\ changed # {}
              /\ Send(w, [c \in Clock |-> IF c \in changed THEN sweep[w].seen[c] ELSE Keep], "next")

\* Fault: the whole row is replaced.
Merged_Whole(row, write) == write

Merged(row, write) == [c \in Clock |-> IF write[c] = Keep THEN row[c] ELSE write[c]]

Commit(w) ==
    /\ sweep[w].pc = "next" /\ sweep[w].todo = {}
    /\ state' = [t \in Ticket |->
                   IF sweep[w].rows[t] = Untouched THEN state[t]
                   ELSE Merged(state[t], sweep[w].rows[t])]
    /\ Step(w, Idle)
    /\ UNCHANGED <<active, clocks, alerts, entered, changes, lost, overlapped, mixed>>

--------------------------------------------------------------------------
(* What ends a sweep half-way *)

\* The worker dies, the broker refuses an alert or calculate_sla raises.
Crash(w) ==
    /\ sweep[w].pc # "idle"
    /\ lost < MaxLost
    /\ RollBack(w)
    /\ UNCHANGED <<active, clocks, entered, changes, overlapped, mixed>>

WaitsFor(w, v) ==
    /\ \/ sweep[w].pc = "insert"
       \/ sweep[w].pc = "flush" /\ Changed(sweep[w]) # {}
    /\ v # w /\ sweep[v].rows[sweep[w].ticket] # Untouched

\* Sweeps walk over the tickets in any order; the database aborts one of a cycle.
Deadlocked(w) ==
    \E cycle \in SUBSET Worker :
        w \in cycle /\ \A v \in cycle : \E u \in cycle : WaitsFor(v, u)

DeadlockVictim(w) ==
    /\ Deadlocked(w)
    /\ lost < MaxLost
    /\ RollBack(w)
    /\ UNCHANGED <<active, clocks, entered, changes, overlapped, mixed>>

--------------------------------------------------------------------------

Work(w) == Look(w) \/ Insert(w) \/ SendAlert(w) \/ Flush(w) \/ Commit(w)

Next ==
    \/ \E t \in Ticket : Edit(t) \/ \E c \in Clock : TimePasses(t, c)
    \/ \E w \in Worker : SweepStart(w) \/ Work(w) \/ Crash(w) \/ DeadlockVictim(w)

Spec == Init /\ [][Next]_vars

\* Celery Beat goes on queueing sweeps, some worker takes them, and workers and the
\* database go on with what they have begun.
FairSpec ==
    /\ Spec
    /\ WF_vars(\E w \in Worker : SweepStart(w))
    /\ \A w \in Worker : WF_vars(Work(w)) /\ WF_vars(DeadlockVictim(w))

--------------------------------------------------------------------------
(* Properties *)

\* The variables hold tickets, clock statuses, rows and counts.
TypeOK ==
    /\ active \subseteq Ticket
    /\ clocks \in [Ticket -> Reading]
    /\ state \in [Ticket -> Row \cup {Absent}]
    /\ sweep \in [Worker -> SweepState]
    /\ alerts \in [Ticket -> [Clock -> Seq(Alert)]]
    /\ entered \in [Ticket -> [Clock -> Nat]] /\ mixed \in [Ticket -> [Clock -> Nat]]
    /\ changes \in 0..MaxChanges /\ lost \in Nat /\ overlapped \in BOOLEAN

Said(announced, status) == \E i \in DOMAIN announced : announced[i] = status

\* No alert is swallowed: whatever sweeps overlap, overwrite each other or are rolled
\* back, a status that is on record as at_risk or breached has been announced.
RecordedIsAnnounced ==
    \A t \in Ticket, c \in Clock :
        state[t] # Absent /\ state[t][c] \in Alert => Said(alerts[t][c], state[t][c])

\* The insert that dispatch_event flushes before the first alert keeps overlapping
\* sweeps apart: until its row is committed, a clock is announced once per sweep lost.
FirstAlertOnce ==
    \A t \in Ticket, c \in Clock : state[t] = Absent => Len(alerts[t][c]) <= 1 + lost

\* Sweeps that never overlap and of which none is lost announce a clock once for each
\* time it became at_risk or breached, however late they see it.  The one exception is a
\* ticket that was edited between the query and its turn: a status the clock does not have
\* costs at most two alerts, its own and one more of the status it has.
OneAlertWhenAlone == Alone =>
    \A t \in Ticket, c \in Clock : Len(alerts[t][c]) <= entered[t][c] + 2 * mixed[t][c]

\* What the table says of an active ticket catches up with its clocks once they rest,
\* although sweeps overlap, overwrite what later ones saw, and some are lost.
RecordCatchesUp ==
    \A t \in Ticket : <>[](t \in active) => <>[](clocks[t] \in {NoSla, state[t]})

==========================================================================
