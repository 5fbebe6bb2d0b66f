------------------------- MODULE TicketLifecycle -------------------------
(***************************************************************************)
(* The life of a helpdesk ticket: opening (directly or from the service    *)
(* catalog), PATCH by the staff, approval by an administrator, by VIP or by *)
(* timeout, the audit history and the webhook events sent after a commit.   *)
(*                                                                         *)
(* Every HTTP request and every Celery task owns one ORM session.  A        *)
(* session reads a row, decides on what it read, and writes at commit only  *)
(* the columns it changed (PostgreSQL READ COMMITTED, no row lock and no     *)
(* version column), so between the read and the commit any other session    *)
(* may commit.  A session is one record of ses; its read and its commit are  *)
(* separate actions.                                                        *)
(***************************************************************************)
EXTENDS Integers, Sequences, FiniteSets

CONSTANTS
    Ticket,         \* identifiers of the tickets that can be opened
    Session,        \* ORM sessions that can be open at the same time
    Technician,     \* users that can be put in assigned_to
    Team,           \* support teams (queues)
    TechLevel,      \* the level column of each technician: no endpoint updates it
    CatalogItem,    \* service catalog items a ticket can be opened from
    Patch,          \* the PATCH bodies requests may carry
    Opening,        \* the <<team, level>> pairs the triage can give a new ticket
    MaxPatches,     \* bound: PATCH requests in a behaviour
    MaxCrashes,     \* bound: sessions lost between their steps in a behaviour
    None,           \* NULL
    Unset           \* a field the PATCH body does not carry

Pending == "aguardando_aprovacao"
Status == {Pending, "aberto", "em_atendimento", "aguardando_solicitante",
           "resolvido", "fechado", "cancelado"}
STATUS_ENCERRADOS == {"fechado", "cancelado"}

Level == {"n1", "n2", "n3"}
ORDEM_NIVEL == [l \in Level |-> CASE l = "n1" -> 1 [] l = "n2" -> 2 [] l = "n3" -> 3]

Role == {"admin", "tecnico"}

\* resolved_at and closed_at are kept as "IS NOT NULL".  title, description,
\* priority, category_id and subcategory_id are tracked columns that no guard
\* of this component reads: team_id behaves as they do.
Row == [status        : Status,
        current_level : Level,
        assigned_to   : Technician \cup {None},
        team_id       : Team \cup {None},
        catalog_item  : CatalogItem \cup {None},
        resolved_at   : BOOLEAN,
        closed_at     : BOOLEAN]

\* timeout_action "none" is an item without approval_timeout_hours; every action but
\* auto_approve, NULL included, rejects.
Item == [requires_approval   : BOOLEAN,
         auto_approve_if_vip : BOOLEAN,
         timeout_action      : {"none", "auto_approve", "auto_reject"}]

\* The columns whose changes get a history row, and what they hold.
Column == {"status", "current_level", "assigned_to", "team_id"}
Value == Status \cup Level \cup Technician \cup Team \cup {None}

PatchBody == [status        : Status \cup {Unset},
              current_level : Level \cup {Unset},
              assigned_to   : Technician \cup {None, Unset},
              team_id       : Team \cup {None, Unset}]

ASSUME ConstantsAssumption ==
    /\ TechLevel \in [Technician -> Level \cup {None}]
    /\ CatalogItem \subseteq Item
    /\ Patch \subseteq PatchBody
    /\ Opening \subseteq (Team \cup {None}) \X Level
    /\ MaxPatches \in Nat /\ MaxCrashes \in Nat
    /\ None \notin Technician \cup Team \cup Level /\ None \notin CatalogItem
    /\ None \notin Row /\ None \notin [Column -> Value]
    /\ Unset \notin Technician \cup Team \cup Level \cup Status \cup {None}

VARIABLES
    db,         \* db[t]: the committed row of ticket t, None until it is inserted
    history,    \* history[t]: the committed ticket_history rows of t, by field
    members,    \* the team_membership table, pairs <<team, technician>>
    ses,        \* ses[s]: what session s has loaded and is about to do
    outbox,     \* outbox[t]: webhook events of t handed to the Celery broker
    overdue,    \* overdue[t]: created_at + approval_timeout_hours has passed
    patches,    \* PATCH requests received so far
    crashes     \* sessions lost so far

vars == <<db, history, members, ses, outbox, overdue, patches, crashes>>

--------------------------------------------------------------------------
(* Audit history *)

Change(S) == [old : S, new : S]

Log == [status        : Seq(Change(Status)),
        current_level : Seq(Change(Level)),
        assigned_to   : Seq(Change(Technician \cup {None})),
        team_id       : Seq(Change(Team \cup {None}))]

EmptyLog == [status |-> <<>>, current_level |-> <<>>, assigned_to |-> <<>>, team_id |-> <<>>]

\* Fault: the entry is built after setattr, so it reads the new value twice.
LogChange_AfterSet(log, old, new) ==
    IF old = new THEN log ELSE Append(log, [old |-> new, new |-> new])

LogChange(log, old, new) ==
    IF old = new THEN log ELSE Append(log, [old |-> old, new |-> new])

\* One history row per tracked field that the PATCH changes.
LogRow(log, old, new) ==
    [status        |-> LogChange(log.status, old.status, new.status),
     current_level |-> LogChange(log.current_level, old.current_level, new.current_level),
     assigned_to   |-> LogChange(log.assigned_to, old.assigned_to, new.assigned_to),
     team_id       |-> LogChange(log.team_id, old.team_id, new.team_id)]

--------------------------------------------------------------------------
(* Rows *)

NewRow(opening) ==
    [status |-> "aberto", current_level |-> opening[2], assigned_to |-> None,
     team_id |-> opening[1], catalog_item |-> None,
     resolved_at |-> FALSE, closed_at |-> FALSE]

\* The UPDATE the unit of work emits: the columns in which new differs from
\* the row the session loaded, laid over the row that is in the table now.
Updated(cur, old, new) ==
    [status        |-> IF new.status # old.status THEN new.status ELSE cur.status,
     current_level |-> IF new.current_level # old.current_level
                       THEN new.current_level ELSE cur.current_level,
     assigned_to   |-> IF new.assigned_to # old.assigned_to
                       THEN new.assigned_to ELSE cur.assigned_to,
     team_id       |-> IF new.team_id # old.team_id THEN new.team_id ELSE cur.team_id,
     catalog_item  |-> IF new.catalog_item # old.catalog_item
                       THEN new.catalog_item ELSE cur.catalog_item,
     resolved_at   |-> IF new.resolved_at # old.resolved_at
                       THEN new.resolved_at ELSE cur.resolved_at,
     closed_at     |-> IF new.closed_at # old.closed_at THEN new.closed_at ELSE cur.closed_at]

\* Fault: model_dump without exclude_unset, so absent fields overwrite the row.
Given_Dumped(field, current) == field

Given(field, current) == IF field = Unset THEN current ELSE field

\* subindo: the PATCH raises the level of the row it was checked against.
Raises(row, p) ==
    p.current_level # Unset /\ ORDEM_NIVEL[p.current_level] > ORDEM_NIVEL[row.current_level]

Lowers(row, p) ==
    p.current_level # Unset /\ ORDEM_NIVEL[p.current_level] < ORDEM_NIVEL[row.current_level]

\* Fault: going up a level keeps the technician of the level below.
PatchedAssignee_Kept(row, p) == Given(p.assigned_to, row.assigned_to)

PatchedAssignee(row, p) ==
    IF p.assigned_to = Unset /\ Raises(row, p) THEN None
    ELSE Given(p.assigned_to, row.assigned_to)

Resolves(row, p) == p.status # Unset /\ Given(p.status, row.status) = "resolvido"

\* Fault: resolving a ticket closes it too.
Closes_Early(row, p) == p.status \in STATUS_ENCERRADOS \cup {"resolvido"}

Closes(row, p) == p.status # Unset /\ Given(p.status, row.status) \in STATUS_ENCERRADOS

PatchedRow(row, p) ==
    [status        |-> Given(p.status, row.status),
     current_level |-> Given(p.current_level, row.current_level),
     assigned_to   |-> PatchedAssignee(row, p),
     team_id       |-> Given(p.team_id, row.team_id),
     catalog_item  |-> row.catalog_item,
     resolved_at   |-> row.resolved_at \/ Resolves(row, p),
     closed_at     |-> row.closed_at \/ Closes(row, p)]

--------------------------------------------------------------------------
(* Sessions *)

Event == [type : {"status_changed", "assigned"},
          old  : Status \cup {None},
          new  : Status \cup Technician]

\* "check": the assignee of a PATCH is still to be validated;  "patch", "promote",
\* "decide": new is ready to be committed by update_ticket, by the second commit of
\* create_ticket_from_catalog, by approve_ticket;  "vip": the automatic approval of
\* a VIP's ticket is next;  "sweep": the timeout task is between two tickets;
\* "notify": committed, events are still to be dispatched.
SessionState == [pc     : {"idle", "check", "patch", "promote", "vip", "decide", "sweep", "notify"},
                 ticket : Ticket \cup {None},
                 snap   : Row \cup {None},
                 new    : Row \cup {None},
                 role   : Role \cup {None},
                 vip    : BOOLEAN,
                 todo   : SUBSET Ticket,
                 events : Seq(Event)]

Idle == [pc |-> "idle", ticket |-> None, snap |-> None, new |-> None, role |-> None,
         vip |-> FALSE, todo |-> {}, events |-> <<>>]

Become(s, state) == ses' = [ses EXCEPT ![s] = state]

Exists(t) == db[t] # None

\* The commit of session s: its UPDATE, and its history rows in the same transaction.
WriteRow(s) ==
    LET t == ses[s].ticket
    IN  db' = [db EXCEPT ![t] = Updated(db[t], ses[s].snap, ses[s].new)]

WriteHistory(s) ==
    LET t == ses[s].ticket
    IN  history' = [history EXCEPT ![t] = LogRow(history[t], ses[s].snap, ses[s].new)]

Init ==
    /\ db = [t \in Ticket |-> None]
    /\ history = [t \in Ticket |-> EmptyLog]
    /\ members = Team \X Technician
    /\ ses = [s \in Session |-> Idle]
    /\ outbox = [t \in Ticket |-> <<>>]
    /\ overdue = [t \in Ticket |-> FALSE]
    /\ patches = 0
    /\ crashes = 0

--------------------------------------------------------------------------
(* Opening a ticket *)

\* create_ticket: one INSERT; team and level are what the triage leaves in the row.
CreateTicket(t) ==
    /\ ~Exists(t)
    /\ \E opening \in Opening : db' = [db EXCEPT ![t] = NewRow(opening)]
    /\ UNCHANGED <<history, members, ses, outbox, overdue, patches, crashes>>

\* Fault: the item is recorded but the ticket is left open.
Promoted_Open(row, item) == [row EXCEPT !.catalog_item = item]

Promoted(row, item) ==
    [row EXCEPT !.catalog_item = item,
                !.status = IF item.requires_approval THEN Pending ELSE @]

\* create_ticket_from_catalog up to the commit inside create_ticket: the row is
\* visible, open and without its item.
CreateFromCatalog(s, t) ==
    /\ ses[s].pc = "idle"
    /\ ~Exists(t)
    /\ \E opening \in Opening, item \in CatalogItem, vip \in BOOLEAN :
          LET row == NewRow(opening)
          IN  /\ db' = [db EXCEPT ![t] = row]
              /\ Become(s, [Idle EXCEPT !.pc = "promote", !.ticket = t, !.snap = row,
                                        !.new = Promoted(row, item), !.vip = vip])
    /\ UNCHANGED <<history, members, outbox, overdue, patches, crashes>>

\* Its second commit: item and pending status, with no history row.
Promote(s) ==
    /\ ses[s].pc = "promote"
    /\ WriteRow(s)
    /\ LET item == ses[s].new.catalog_item
       IN  IF item.requires_approval /\ item.auto_approve_if_vip /\ ses[s].vip
           THEN Become(s, [Idle EXCEPT !.pc = "vip", !.ticket = ses[s].ticket])
           ELSE Become(s, Idle)
    /\ UNCHANGED <<history, members, outbox, overdue, patches, crashes>>

--------------------------------------------------------------------------
(* Approval *)

\* Fault: any ticket that is not closed may be decided.
Undecided_Open(row) == row.status \notin STATUS_ENCERRADOS

\* The guard of approve_ticket (TicketNotPendingApprovalError).
Undecided(row) == row.status = Pending

\* Fault: a rejected ticket is cancelled without closed_at.
Decided_Unstamped(row, approved) ==
    [row EXCEPT !.status = IF approved THEN "aberto" ELSE "cancelado"]

Decided(row, approved) ==
    [row EXCEPT !.status = IF approved THEN "aberto" ELSE "cancelado",
                !.closed_at = @ \/ ~approved]

\* approve_ticket up to its commit, once the loaded row has passed its guard.
Deciding(t, approved, rest) ==
    [Idle EXCEPT !.pc = "decide", !.ticket = t, !.snap = db[t],
                 !.new = Decided(db[t], approved), !.todo = rest]

\* POST /tickets/{id}/approve: the 409 of a ticket that is not pending changes nothing.
ApproveLoad(s, t) ==
    /\ ses[s].pc = "idle"
    /\ Exists(t) /\ Undecided(db[t])
    /\ \E approved \in BOOLEAN : Become(s, Deciding(t, approved, {}))
    /\ UNCHANGED <<db, history, members, outbox, overdue, patches, crashes>>

\* The automatic approval at the end of create_ticket_from_catalog.
VipLoad(s) ==
    /\ ses[s].pc = "vip"
    /\ LET t == ses[s].ticket
       IN  Become(s, IF Undecided(db[t]) THEN Deciding(t, TRUE, {}) ELSE Idle)
    /\ UNCHANGED <<db, history, members, outbox, overdue, patches, crashes>>

\* Fault: only the items whose timeout approves are looked at.
Expired_ApproveOnly(row) == row.catalog_item.timeout_action = "auto_approve"

Expired(row) == row.catalog_item.timeout_action # "none"

Due == {t \in Ticket : /\ Exists(t) /\ db[t].status = Pending
                       /\ db[t].catalog_item # None
                       /\ Expired(db[t])
                       /\ overdue[t]}

AutoApproves(t) == db[t].catalog_item.timeout_action = "auto_approve"

\* apply_approval_timeouts: one SELECT of the pending tickets, then the first of
\* them that is due (the query has no ORDER BY), decided on the row as selected.
SweepStart(s) ==
    /\ ses[s].pc = "idle"
    /\ \E t \in Due : Become(s, Deciding(t, AutoApproves(t), Due \ {t}))
    /\ UNCHANGED <<db, history, members, outbox, overdue, patches, crashes>>

\* The commit expired every loaded row, so the next ticket is read again; one that
\* is no longer pending raises, and the rest of the sweep is abandoned.
SweepNext(s) ==
    /\ ses[s].pc = "sweep"
    /\ \E t \in ses[s].todo :
          Become(s, IF Undecided(db[t]) THEN Deciding(t, AutoApproves(t), ses[s].todo \ {t})
                    ELSE Idle)
    /\ UNCHANGED <<db, history, members, outbox, overdue, patches, crashes>>

Decide(s) ==
    /\ ses[s].pc = "decide"
    /\ WriteRow(s)
    /\ WriteHistory(s)
    /\ Become(s, IF ses[s].todo = {} THEN Idle
                 ELSE [Idle EXCEPT !.pc = "sweep", !.todo = ses[s].todo])
    /\ UNCHANGED <<members, outbox, overdue, patches, crashes>>

DeadlinePasses(t) ==
    /\ Exists(t) /\ ~overdue[t]
    /\ overdue' = [overdue EXCEPT ![t] = TRUE]
    /\ UNCHANGED <<db, history, members, ses, outbox, patches, crashes>>

--------------------------------------------------------------------------
(* PATCH /tickets/{id} *)

\* Fault: nobody is stopped from lowering the level.
MayPatch_Anyone(row, p, role) == TRUE

\* ForbiddenLevelDowngradeError, raised against the row as loaded.
MayPatch(row, p, role) == Lowers(row, p) => role = "admin"

Assigns(p) == p.assigned_to \notin {Unset, None}

\* InvalidTechnicianLevelError: the technician's level is the level after the PATCH.
LevelFits(new) == TechLevel[new.assigned_to] = new.current_level

\* update_ticket up to its last read of the ticket.  A request that is refused
\* (403, 422) leaves everything as it was and is not a step.
PatchLoad(s, t) ==
    /\ ses[s].pc = "idle"
    /\ patches < MaxPatches
    /\ Exists(t)
    /\ \E p \in Patch, role \in Role :
          LET new == PatchedRow(db[t], p)
          IN  /\ MayPatch(db[t], p, role)
              /\ Assigns(p) => LevelFits(new)
              /\ Become(s, [Idle EXCEPT !.pc = IF Assigns(p) THEN "check" ELSE "patch",
                                        !.ticket = t, !.snap = db[t], !.new = new,
                                        !.role = role])
    /\ patches' = patches + 1
    /\ UNCHANGED <<db, history, members, outbox, overdue, crashes>>

\* TechnicianNotInTeamError: membership of the team the ticket had when loaded.
PatchCheck(s) ==
    /\ ses[s].pc = "check"
    /\ LET team == ses[s].snap.team_id
           fits == team = None \/ <<team, ses[s].new.assigned_to>> \in members
       IN  Become(s, IF fits THEN [ses[s] EXCEPT !.pc = "patch"] ELSE Idle)
    /\ UNCHANGED <<db, history, members, outbox, overdue, patches, crashes>>

StatusEvent(old, new) ==
    IF old.status = new.status THEN <<>>
    ELSE <<[type |-> "status_changed", old |-> old.status, new |-> new.status]>>

AssignedEvent(old, new) ==
    IF new.assigned_to \in {old.assigned_to, None} THEN <<>>
    ELSE <<[type |-> "assigned", old |-> None, new |-> new.assigned_to]>>

PatchCommit(s) ==
    /\ ses[s].pc = "patch"
    /\ WriteRow(s)
    /\ WriteHistory(s)
    /\ LET events == StatusEvent(ses[s].snap, ses[s].new) \o AssignedEvent(ses[s].snap, ses[s].new)
       IN  Become(s, IF events = <<>> THEN Idle
                     ELSE [Idle EXCEPT !.pc = "notify", !.ticket = ses[s].ticket,
                                       !.events = events])
    /\ UNCHANGED <<members, outbox, overdue, patches, crashes>>

\* Fault: the loop over the history entries starts over after a dispatch.
Remaining_All(events) == IF Len(events) = 1 THEN <<>> ELSE <<events[1]>>

Remaining(events) == Tail(events)

\* dispatch_event for the next history entry of the request.
Notify(s) ==
    /\ ses[s].pc = "notify"
    /\ LET t == ses[s].ticket
           rest == Remaining(ses[s].events)
       IN  /\ outbox' = [outbox EXCEPT ![t] = Append(@, Head(ses[s].events))]
           /\ Become(s, IF rest = <<>> THEN Idle ELSE [ses[s] EXCEPT !.events = rest])
    /\ UNCHANGED <<db, history, members, overdue, patches, crashes>>

--------------------------------------------------------------------------
(* Teams and failures *)

AddMember(team, technician) ==
    /\ <<team, technician>> \notin members
    /\ members' = members \cup {<<team, technician>>}
    /\ UNCHANGED <<db, history, ses, outbox, overdue, patches, crashes>>

RemoveMember(team, technician) ==
    /\ <<team, technician>> \in members
    /\ members' = members \ {<<team, technician>>}
    /\ UNCHANGED <<db, history, ses, outbox, overdue, patches, crashes>>

\* The process dies, or the request fails with a 500: what was not committed or
\* not dispatched is lost, what was committed stays.
Crash(s) ==
    /\ ses[s].pc # "idle"
    /\ crashes < MaxCrashes
    /\ Become(s, Idle)
    /\ crashes' = crashes + 1
    /\ UNCHANGED <<db, history, members, outbox, overdue, patches>>

--------------------------------------------------------------------------

\* The steps a session takes by itself once it has loaded something.
Proceed(s) ==
    \/ PatchCheck(s) \/ PatchCommit(s) \/ Notify(s)
    \/ Promote(s) \/ VipLoad(s) \/ SweepNext(s) \/ Decide(s)

Next ==
    \/ \E s \in Session : Proceed(s) \/ SweepStart(s) \/ Crash(s)
    \/ \E s \in Session, t \in Ticket :
          CreateFromCatalog(s, t) \/ ApproveLoad(s, t) \/ PatchLoad(s, t)
    \/ \E t \in Ticket : CreateTicket(t) \/ DeadlinePasses(t)
    \/ \E team \in Team, technician \in Technician :
          AddMember(team, technician) \/ RemoveMember(team, technician)

Spec == Init /\ [][Next]_vars

\* A session that has begun goes on to its end (the thread or the worker runs),
\* and Celery Beat starts the timeout task again and again.
FairSpec == /\ Spec
            /\ \A s \in Session : WF_vars(Proceed(s))
            /\ WF_vars(\E s \in Session : SweepStart(s))

--------------------------------------------------------------------------
IsPending(t) == Exists(t) /\ db[t].status = Pending

(* Invariants that no interleaving of sessions and no crash can break *)

\* Every variable holds values of its kind: the columns theirs, a session what it loaded.
TypeOK ==
    /\ db \in [Ticket -> Row \cup {None}]
    /\ history \in [Ticket -> Log]
    /\ members \subseteq Team \X Technician
    /\ ses \in [Session -> SessionState]
    /\ outbox \in [Ticket -> Seq(Event)]
    /\ overdue \in [Ticket -> BOOLEAN]
    /\ patches \in 0..MaxPatches
    /\ crashes \in 0..MaxCrashes

Stamped(row) ==
    /\ row.status = "resolvido" => row.resolved_at
    /\ row.status \in STATUS_ENCERRADOS => row.closed_at

\* A resolved ticket has its resolved_at and a closed or cancelled one its closed_at:
\* the SLA clock, the KPIs and set_resolution read the timestamp, never the status.
OutcomeStamped == \A t \in Ticket : Exists(t) => Stamped(db[t])

Reached(log, statuses) == \E i \in DOMAIN log : log[i].new \in statuses

\* A timestamp is never there without the history entry that reached the outcome,
\* even when the status has been overwritten since.
OutcomeExplained ==
    \A t \in Ticket : Exists(t) =>
        /\ db[t].resolved_at => Reached(history[t].status, {"resolvido"})
        /\ db[t].closed_at => Reached(history[t].status, STATUS_ENCERRADOS)

Occurrences(log, old, new) ==
    Cardinality({i \in DOMAIN log : log[i].old = old /\ log[i].new = new})

Announced(sent, old, new) ==
    Cardinality({i \in DOMAIN sent :
        sent[i] = [type |-> "status_changed", old |-> old, new |-> new]})

\* A status_changed event reports a committed history entry, and no entry is
\* reported twice, whatever crashes between the commit and the dispatch.
EventsAreCommitted ==
    \A t \in Ticket : \A i \in DOMAIN outbox[t] :
        LET e == outbox[t][i]
        IN  e.type = "status_changed" =>
                Announced(outbox[t], e.old, e.new)
                    <= Occurrences(history[t].status, e.old, e.new)

Commits(s, pc) == ses[s].pc = pc /\ ses'[s] # ses[s] /\ crashes' = crashes

Below(l, m) == ORDEM_NIVEL[l] < ORDEM_NIVEL[m]

\* The level of a ticket goes down by the hand of an administrator; a technician's PATCH
\* takes it down only from where another one has raised it to since, and never to the level
\* the technician has read or below.
OnlyAdminDowngrades ==
    [][\A t \in Ticket :
          Exists(t) /\ Below(db'[t].current_level, db[t].current_level)
          => \E s \in Session :
                /\ Commits(s, "patch") /\ ses[s].ticket = t
                /\ ses[s].role = "admin" \/ Below(ses[s].snap.current_level, db'[t].current_level)]_vars

\* An approval or a rejection is of a ticket that is pending, or was when it was loaded; if
\* another session has decided or changed it since, the history ends with what that one did.
DecidesAwaiting ==
    [][\A s \in Session : Commits(s, "decide") =>
          LET t == ses[s].ticket
              log == history[t].status
          IN  \/ IsPending(t)
              \/ /\ ses[s].snap.status = Pending
                 /\ log # <<>> /\ log[Len(log)].new = db[t].status]_vars

\* approve_ticket "aprova ou rejeita um chamado que está aguardando aprovação": a decision is
\* committed only while the ticket is pending.
DecidesPending ==
    [][\A s \in Session : Commits(s, "decide") => IsPending(ses[s].ticket)]_vars

--------------------------------------------------------------------------
(* Properties of requests that are served one after the other *)

\* A ticket of an item that requires approval has left the pending status only
\* through a history entry that says so.
NoSilentApproval ==
    \A t \in Ticket :
        /\ Exists(t) /\ db[t].catalog_item # None
        /\ db[t].catalog_item.requires_approval /\ ~IsPending(t)
        => \E i \in DOMAIN history[t].status : history[t].status[i].old = Pending

\* Nobody holds a ticket of a level above his own.
AssigneeNotUnderqualified ==
    \A t \in Ticket : Exists(t) /\ db[t].assigned_to # None =>
        ORDEM_NIVEL[TechLevel[db[t].assigned_to]] >= ORDEM_NIVEL[db[t].current_level]

Tracked(row) == [status |-> row.status, current_level |-> row.current_level,
                 assigned_to |-> row.assigned_to, team_id |-> row.team_id]

TrackedRows == [t \in Ticket |-> IF Exists(t) THEN Tracked(db[t]) ELSE None]

Audit == INSTANCE AuditTrail WITH
            Cell <- Ticket,
            Field <- Column,
            Absent <- None,
            current <- TrackedRows,
            log <- history

\* The history is the audit trail of the tickets.
KeepsAuditTrail == Audit!Spec

--------------------------------------------------------------------------
(* Liveness *)

\* A ticket whose approval deadline passes does not stay pending: sweeps that are
\* abandoned or crash are made good by a later one.
OverdueDecided ==
    \A t \in Ticket :
        /\ IsPending(t) /\ overdue[t] /\ db[t].catalog_item # None
        /\ db[t].catalog_item.timeout_action # "none"
        ~> ~IsPending(t)

==========================================================================
