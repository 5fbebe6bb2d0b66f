---------------------- MODULE TicketLifecycleProofs ----------------------
(***************************************************************************)
(* Theorems about TicketLifecycle for every set of tickets, sessions,       *)
(* technicians, teams, catalog items and PATCH bodies, and every bound.      *)
(*                                                                         *)
(* First what no interleaving breaks.  Then what holds as long as requests   *)
(* are served one after the other: the ticket services implement AuditTrail, *)
(* every step of theirs being a step of the trail of some ticket or leaving   *)
(* all trails alone, and what the guards of the services promise holds of    *)
(* what is committed.                                                        *)
(***************************************************************************)
EXTENDS TicketLifecycle, FiniteSetTheorems, TLAPS

--------------------------------------------------------------------------
(* What the helpers return *)

LEMMA LogChangeFacts ==
    ASSUME NEW S, NEW log \in Seq(Change(S)), NEW old \in S, NEW new \in S
    PROVE  /\ LogChange(log, old, new) \in Seq(Change(S))
           /\ \A i \in DOMAIN log : /\ i \in DOMAIN LogChange(log, old, new)
                                    /\ LogChange(log, old, new)[i] = log[i]
           /\ old # new =>
                 \E i \in DOMAIN LogChange(log, old, new) :
                     LogChange(log, old, new)[i].new = new
<1>1. CASE old = new
  BY <1>1 DEF LogChange
<1>2. CASE old # new
  <2> DEFINE e == [old |-> old, new |-> new]
  <2>1. e \in Change(S)
    BY DEF Change
  <2>2. LogChange(log, old, new) = Append(log, e)
    BY <1>2 DEF LogChange
  <2>3. Len(log) \in Nat /\ DOMAIN log = 1..Len(log)
    OBVIOUS
  <2>4. /\ Append(log, e) \in Seq(Change(S))
        /\ DOMAIN Append(log, e) = 1..(Len(log) + 1)
        /\ Append(log, e)[Len(log) + 1] = e
        /\ \A i \in 1..Len(log) : Append(log, e)[i] = log[i]
    BY <2>1, <2>3
  <2>5. Len(log) + 1 \in 1..(Len(log) + 1) /\ \A i \in 1..Len(log) : i \in 1..(Len(log) + 1)
    BY <2>3
  <2> QED
    BY <2>2, <2>3, <2>4, <2>5
<1> QED
  BY <1>1, <1>2

LEMMA LogRowType ==
    ASSUME NEW log \in Log, NEW old \in Row, NEW new \in Row
    PROVE  LogRow(log, old, new) \in Log
<1>1. /\ log.status \in Seq(Change(Status))
      /\ log.current_level \in Seq(Change(Level))
      /\ log.assigned_to \in Seq(Change(Technician \cup {None}))
      /\ log.team_id \in Seq(Change(Team \cup {None}))
  BY DEF Log
<1>2. /\ old.status \in Status /\ new.status \in Status
      /\ old.current_level \in Level /\ new.current_level \in Level
      /\ old.assigned_to \in Technician \cup {None} /\ new.assigned_to \in Technician \cup {None}
      /\ old.team_id \in Team \cup {None} /\ new.team_id \in Team \cup {None}
  BY DEF Row
<1>3. LogChange(log.status, old.status, new.status) \in Seq(Change(Status))
  BY <1>1, <1>2, LogChangeFacts
<1>4. LogChange(log.current_level, old.current_level, new.current_level) \in Seq(Change(Level))
  BY <1>1, <1>2, LogChangeFacts
<1>5. LogChange(log.assigned_to, old.assigned_to, new.assigned_to)
          \in Seq(Change(Technician \cup {None}))
  BY <1>1, <1>2, LogChangeFacts
<1>6. LogChange(log.team_id, old.team_id, new.team_id) \in Seq(Change(Team \cup {None}))
  BY <1>1, <1>2, LogChangeFacts
<1> QED
  BY <1>3, <1>4, <1>5, <1>6 DEF LogRow, Log

LEMMA UpdatedType ==
    ASSUME NEW cur \in Row, NEW old \in Row, NEW new \in Row
    PROVE  Updated(cur, old, new) \in Row
BY DEF Updated, Row

LEMMA NewRowType ==
    ASSUME NEW opening \in Opening
    PROVE  NewRow(opening) \in Row
<1>1. opening[1] \in Team \cup {None} /\ opening[2] \in Level
  BY ConstantsAssumption
<1> QED
  BY <1>1 DEF NewRow, Row, Status

LEMMA PromotedType ==
    ASSUME NEW row \in Row, NEW item \in CatalogItem
    PROVE  Promoted(row, item) \in Row
BY DEF Promoted, Row, Status, Pending

LEMMA DecidedType ==
    ASSUME NEW row \in Row, NEW approved \in BOOLEAN
    PROVE  Decided(row, approved) \in Row
BY DEF Decided, Row, Status

LEMMA PatchedRowType ==
    ASSUME NEW row \in Row, NEW p \in Patch
    PROVE  PatchedRow(row, p) \in Row
<1>1. p \in PatchBody
  BY ConstantsAssumption
<1>2. Given(p.status, row.status) \in Status
  BY <1>1 DEF Given, PatchBody, Row
<1>3. Given(p.current_level, row.current_level) \in Level
  BY <1>1 DEF Given, PatchBody, Row
<1>4. PatchedAssignee(row, p) \in Technician \cup {None}
  BY <1>1 DEF PatchedAssignee, Given, PatchBody, Row
<1>5. Given(p.team_id, row.team_id) \in Team \cup {None}
  BY <1>1 DEF Given, PatchBody, Row
<1>6. (row.resolved_at \/ Resolves(row, p)) \in BOOLEAN
  BY DEF Row, Resolves
<1>7. (row.closed_at \/ Closes(row, p)) \in BOOLEAN
  BY DEF Row, Closes
<1>8. row.catalog_item \in CatalogItem \cup {None}
  BY DEF Row
<1> QED
  BY <1>2, <1>3, <1>4, <1>5, <1>6, <1>7, <1>8 DEF PatchedRow, Row

--------------------------------------------------------------------------
(* The inductive invariant *)

\* What makes a write safe whatever has been committed since the row was loaded: a
\* column the write changes brings its timestamp along, and timestamps only appear.
SafeWrite(old, new) ==
    /\ new.status # old.status => Stamped(new)
    /\ old.resolved_at => new.resolved_at
    /\ old.closed_at => new.closed_at
    /\ new.resolved_at /\ ~old.resolved_at => new.status = "resolvido"
    /\ new.closed_at /\ ~old.closed_at => new.status \in STATUS_ENCERRADOS

\* A loaded row was in the table, and its timestamps are in the table still.
Holds(s) ==
    LET t == ses[s].ticket
    IN  /\ t \in Ticket /\ Exists(t)
        /\ ses[s].snap \in Row /\ ses[s].new \in Row
        /\ Stamped(ses[s].snap)
        /\ ses[s].snap.resolved_at => db[t].resolved_at
        /\ ses[s].snap.closed_at => db[t].closed_at
        /\ SafeWrite(ses[s].snap, ses[s].new)

SessionInv(s) ==
    /\ ses[s].pc \in {"check", "patch", "promote", "decide"} => Holds(s)
    /\ ses[s].pc = "promote" => /\ ses[s].new.catalog_item \in CatalogItem
                                /\ ses[s].new.status \in {"aberto", Pending}
    /\ ses[s].pc \in {"vip", "notify"} => ses[s].ticket \in Ticket /\ Exists(ses[s].ticket)
    /\ ses[s].pc = "notify" => ses[s].events # <<>>
    /\ \A t \in ses[s].todo : Exists(t)

IInv == TypeOK /\ OutcomeStamped /\ OutcomeExplained /\ \A s \in Session : SessionInv(s)

\* Rows are never deleted and timestamps never cleared.
Grows == \A t \in Ticket : Exists(t) =>
            /\ Exists(t)'
            /\ db[t].resolved_at => db'[t].resolved_at
            /\ db[t].closed_at => db'[t].closed_at

LEMMA IdleInv ==
    ASSUME NEW s \in Session, ses'[s] = Idle
    PROVE  SessionInv(s)'
BY DEF SessionInv, Idle

LEMMA OthersKeep ==
    ASSUME IInv, Grows, NEW q \in Session, ses'[q] = ses[q]
    PROVE  SessionInv(q)'
<1>1. SessionInv(q) /\ ses[q] \in SessionState
  BY DEF IInv, TypeOK
<1>2. ses[q].todo \subseteq Ticket
  BY <1>1 DEF SessionState
<1>3. Holds(q) => Holds(q)'
  BY DEF Holds, Grows
<1> QED
  BY <1>1, <1>2, <1>3 DEF SessionInv, Grows

\* A step that leaves the tables alone and changes one session.
LEMMA SessionStep ==
    ASSUME IInv, UNCHANGED <<db, history>>, NEW s \in Session, NEW x \in SessionState,
           ses' = [ses EXCEPT ![s] = x], SessionInv(s)'
    PROVE  /\ ses' \in [Session -> SessionState]
           /\ OutcomeStamped' /\ OutcomeExplained'
           /\ \A q \in Session : SessionInv(q)'
<1>1. Grows
  BY DEF Grows, Exists
<1>2. ses \in [Session -> SessionState]
  BY DEF IInv, TypeOK
<1>3. ASSUME NEW q \in Session, q # s
      PROVE  SessionInv(q)'
  BY <1>1, <1>2, <1>3, OthersKeep
<1>4. OutcomeStamped' /\ OutcomeExplained'
  BY DEF IInv, OutcomeStamped, OutcomeExplained, Exists
<1> QED
  BY <1>2, <1>3, <1>4

\* Any other step that leaves tickets, history and sessions alone.
LEMMA OtherStep ==
    ASSUME IInv, UNCHANGED <<db, history, ses>>
    PROVE  /\ OutcomeStamped' /\ OutcomeExplained'
           /\ \A q \in Session : SessionInv(q)'
<1>1. Grows
  BY DEF Grows, Exists
<1>2. OutcomeStamped' /\ OutcomeExplained'
  BY DEF IInv, OutcomeStamped, OutcomeExplained, Exists
<1> QED
  BY <1>1, <1>2, OthersKeep

--------------------------------------------------------------------------
(* What is loaded is safe to write *)

LEMMA PatchIsSafe ==
    ASSUME NEW row \in Row, Stamped(row), NEW p \in Patch
    PROVE  SafeWrite(row, PatchedRow(row, p))
<1> DEFINE new == PatchedRow(row, p)
<1>1. /\ row.resolved_at \in BOOLEAN /\ row.closed_at \in BOOLEAN
      /\ new.status = Given(p.status, row.status)
      /\ new.resolved_at = (row.resolved_at \/ Resolves(row, p))
      /\ new.closed_at = (row.closed_at \/ Closes(row, p))
  BY DEF PatchedRow, Row
<1>2. Resolves(row, p) <=> p.status # Unset /\ new.status = "resolvido"
  BY <1>1 DEF Resolves
<1>3. Closes(row, p) <=> p.status # Unset /\ new.status \in STATUS_ENCERRADOS
  BY <1>1 DEF Closes
<1>4. new.status # row.status => p.status # Unset
  BY <1>1 DEF Given
<1> HIDE DEF new
<1>5. new.status # row.status => Stamped(new)
  BY <1>1, <1>2, <1>3, <1>4 DEF Stamped
<1>6. row.resolved_at => new.resolved_at
  BY <1>1
<1>7. row.closed_at => new.closed_at
  BY <1>1
<1>8. new.resolved_at /\ ~row.resolved_at => new.status = "resolvido"
  BY <1>1, <1>2
<1>9. new.closed_at /\ ~row.closed_at => new.status \in STATUS_ENCERRADOS
  BY <1>1, <1>3
<1>10. SafeWrite(row, new)
  BY <1>5, <1>6, <1>7, <1>8, <1>9 DEF SafeWrite
<1> QED
  BY <1>10 DEF new

LEMMA DecisionIsSafe ==
    ASSUME NEW row \in Row, NEW approved \in BOOLEAN
    PROVE  SafeWrite(row, Decided(row, approved))
<1>1. CASE approved = TRUE
  BY <1>1 DEF Row, Decided, SafeWrite, Stamped, STATUS_ENCERRADOS
<1>2. CASE approved = FALSE
  BY <1>2 DEF Row, Decided, SafeWrite, Stamped, STATUS_ENCERRADOS
<1> QED
  BY <1>1, <1>2

LEMMA PromotionIsSafe ==
    ASSUME NEW opening \in Opening, NEW item \in CatalogItem
    PROVE  /\ Stamped(NewRow(opening))
           /\ SafeWrite(NewRow(opening), Promoted(NewRow(opening), item))
           /\ Promoted(NewRow(opening), item).status \in {"aberto", Pending}
           /\ Promoted(NewRow(opening), item).catalog_item = item
BY DEF NewRow, Promoted, SafeWrite, Stamped, STATUS_ENCERRADOS, Pending

--------------------------------------------------------------------------
(* What a commit does to the tables *)

LEMMA CommitsRow ==
    ASSUME IInv, NEW s \in Session, Holds(s), WriteRow(s)
    PROVE  /\ db' \in [Ticket -> Row \cup {None}]
           /\ Grows
           /\ OutcomeStamped'
<1> DEFINE t == ses[s].ticket
           old == ses[s].snap
           new == ses[s].new
           cur == db[t]
<1>1. /\ t \in Ticket /\ cur \in Row /\ old \in Row /\ new \in Row
      /\ db \in [Ticket -> Row \cup {None}]
  BY DEF IInv, TypeOK, Holds, Exists
<1>2. db' = [db EXCEPT ![t] = Updated(cur, old, new)]
  BY DEF WriteRow
<1>3. Updated(cur, old, new) \in Row
  BY <1>1, UpdatedType
<1>4. db' \in [Ticket -> Row \cup {None}]
  BY <1>1, <1>2, <1>3
<1>5. /\ Stamped(cur) /\ Stamped(old) /\ SafeWrite(old, new)
      /\ old.resolved_at => cur.resolved_at
      /\ old.closed_at => cur.closed_at
  BY <1>1 DEF IInv, OutcomeStamped, Holds
<1>6. /\ cur.resolved_at \in BOOLEAN /\ old.resolved_at \in BOOLEAN /\ new.resolved_at \in BOOLEAN
      /\ cur.closed_at \in BOOLEAN /\ old.closed_at \in BOOLEAN /\ new.closed_at \in BOOLEAN
  BY <1>1 DEF Row
<1> DEFINE upd == Updated(cur, old, new)
<1>7. /\ upd.status = IF new.status # old.status THEN new.status ELSE cur.status
      /\ upd.resolved_at = IF new.resolved_at # old.resolved_at
                           THEN new.resolved_at ELSE cur.resolved_at
      /\ upd.closed_at = IF new.closed_at # old.closed_at THEN new.closed_at ELSE cur.closed_at
  BY DEF Updated
<1> HIDE DEF upd, cur, old, new
<1>8. (cur.resolved_at => upd.resolved_at) /\ (cur.closed_at => upd.closed_at)
  BY <1>5, <1>6, <1>7 DEF SafeWrite
<1>9. Stamped(upd)
  <2>1. CASE new.status # old.status
    <3>1. Stamped(new) /\ upd.status = new.status
      BY <2>1, <1>5, <1>7 DEF SafeWrite
    <3>2. (new.resolved_at => upd.resolved_at) /\ (new.closed_at => upd.closed_at)
      BY <1>5, <1>6, <1>7
    <3> QED
      BY <3>1, <3>2 DEF Stamped
  <2>2. CASE new.status = old.status
    BY <2>2, <1>5, <1>7, <1>8 DEF Stamped
  <2> QED
    BY <2>1, <2>2
<1>10. db' = [db EXCEPT ![t] = upd] /\ upd \in Row
  BY <1>2, <1>3 DEF upd, cur, old, new
<1>11. Grows
  BY <1>1, <1>4, <1>8, <1>10, ConstantsAssumption DEF Grows, Exists, cur
<1>12. OutcomeStamped'
  BY <1>1, <1>9, <1>10 DEF IInv, OutcomeStamped, Exists
<1> QED
  BY <1>4, <1>11, <1>12

LEMMA ReachedAfter ==
    ASSUME NEW log \in Seq(Change(Status)), NEW old \in Status, NEW new \in Status,
           NEW statuses
    PROVE  /\ Reached(log, statuses) => Reached(LogChange(log, old, new), statuses)
           /\ old # new /\ new \in statuses => Reached(LogChange(log, old, new), statuses)
<1> DEFINE log2 == LogChange(log, old, new)
<1>1. /\ \A i \in DOMAIN log : i \in DOMAIN log2 /\ log2[i] = log[i]
      /\ old # new => \E i \in DOMAIN log2 : log2[i].new = new
  BY LogChangeFacts, SMTT(60)
<1> HIDE DEF log2
<1> QED
  <2>1. Reached(log, statuses) => Reached(log2, statuses)
    BY <1>1 DEF Reached
  <2>2. old # new /\ new \in statuses => Reached(log2, statuses)
    BY <1>1 DEF Reached
  <2> QED
    BY <2>1, <2>2 DEF log2

\* update_ticket and approve_ticket write their history in the same transaction.
LEMMA CommitsHistory ==
    ASSUME IInv, NEW s \in Session, Holds(s), WriteRow(s), WriteHistory(s)
    PROVE  history' \in [Ticket -> Log] /\ OutcomeExplained'
<1> DEFINE t == ses[s].ticket
           old == ses[s].snap
           new == ses[s].new
           cur == db[t]
           upd == Updated(cur, old, new)
           log == history[t].status
           log2 == LogChange(log, old.status, new.status)
<1>1. /\ t \in Ticket /\ cur \in Row /\ old \in Row /\ new \in Row /\ Exists(t)
      /\ db \in [Ticket -> Row \cup {None}]
      /\ history \in [Ticket -> Log] /\ history[t] \in Log
  BY DEF IInv, TypeOK, Holds, Exists
<1>2. /\ db' = [db EXCEPT ![t] = upd]
      /\ history' = [history EXCEPT ![t] = LogRow(history[t], old, new)]
  BY DEF WriteRow, WriteHistory
<1>3. LogRow(history[t], old, new) \in Log
  BY <1>1, LogRowType
<1>4. history' \in [Ticket -> Log]
  BY <1>1, <1>2, <1>3
<1>5. log \in Seq(Change(Status)) /\ old.status \in Status /\ new.status \in Status
  BY <1>1 DEF Log, Row
<1>6. LogRow(history[t], old, new).status = log2
  BY DEF LogRow
<1>7. /\ upd.resolved_at = IF new.resolved_at # old.resolved_at
                           THEN new.resolved_at ELSE cur.resolved_at
      /\ upd.closed_at = IF new.closed_at # old.closed_at THEN new.closed_at ELSE cur.closed_at
  BY DEF Updated
<1>8. /\ Stamped(old) /\ SafeWrite(old, new)
      /\ cur.resolved_at => Reached(log, {"resolvido"})
      /\ cur.closed_at => Reached(log, STATUS_ENCERRADOS)
  BY <1>1 DEF IInv, OutcomeExplained, Holds
<1>9. /\ cur.resolved_at \in BOOLEAN /\ old.resolved_at \in BOOLEAN /\ new.resolved_at \in BOOLEAN
      /\ cur.closed_at \in BOOLEAN /\ old.closed_at \in BOOLEAN /\ new.closed_at \in BOOLEAN
  BY <1>1 DEF Row
<1>10. history'[t].status = log2 /\ db'[t] = upd
  BY <1>1, <1>2, <1>6
<1> HIDE DEF upd, cur, old, new, log, log2
<1>11. ASSUME upd.resolved_at
       PROVE  Reached(log2, {"resolvido"})
  <2>1. CASE cur.resolved_at
    BY <2>1, <1>5, <1>8, ReachedAfter DEF log2
  <2>2. CASE ~cur.resolved_at
    <3>1. new.resolved_at /\ ~old.resolved_at
      BY <2>2, <1>7, <1>8, <1>9, <1>11 DEF SafeWrite
    <3>2. new.status = "resolvido" /\ old.status # "resolvido"
      BY <3>1, <1>8 DEF SafeWrite, Stamped
    <3> QED
      BY <3>2, <1>5, ReachedAfter DEF log2
  <2> QED
    BY <2>1, <2>2
<1>12. ASSUME upd.closed_at
       PROVE  Reached(log2, STATUS_ENCERRADOS)
  <2>1. CASE cur.closed_at
    BY <2>1, <1>5, <1>8, ReachedAfter DEF log2
  <2>2. CASE ~cur.closed_at
    <3>1. new.closed_at /\ ~old.closed_at
      BY <2>2, <1>7, <1>8, <1>9, <1>12 DEF SafeWrite
    <3>2. new.status \in STATUS_ENCERRADOS /\ old.status \notin STATUS_ENCERRADOS
      BY <3>1, <1>8 DEF SafeWrite, Stamped
    <3> QED
      BY <3>2, <1>5, ReachedAfter DEF log2
  <2> QED
    BY <2>1, <2>2
<1>13. ASSUME NEW u \in Ticket, u # t
       PROVE  db'[u] = db[u] /\ history'[u] = history[u]
  BY <1>1, <1>2, <1>13
<1>14. OutcomeExplained'
  <2> SUFFICES ASSUME NEW u \in Ticket, Exists(u)'
               PROVE  /\ db'[u].resolved_at => Reached(history'[u].status, {"resolvido"})
                      /\ db'[u].closed_at => Reached(history'[u].status, STATUS_ENCERRADOS)
    BY DEF OutcomeExplained, Reached
  <2>1. CASE u = t
    BY <2>1, <1>10, <1>11, <1>12
  <2>2. CASE u # t
    BY <2>2, <1>13 DEF IInv, OutcomeExplained, Exists
  <2> QED
    BY <2>1, <2>2
<1> QED
  BY <1>4, <1>14

\* The second commit of create_ticket_from_catalog sets no timestamp.
LEMMA PromotionNeedsNoHistory ==
    ASSUME IInv, NEW s \in Session, Holds(s), WriteRow(s), UNCHANGED history,
           ses[s].new.status \in {"aberto", Pending}
    PROVE  OutcomeExplained'
<1> DEFINE t == ses[s].ticket
           old == ses[s].snap
           new == ses[s].new
           cur == db[t]
           upd == Updated(cur, old, new)
<1>1. /\ t \in Ticket /\ cur \in Row /\ old \in Row /\ new \in Row /\ Exists(t)
      /\ db \in [Ticket -> Row \cup {None}]
  BY DEF IInv, TypeOK, Holds, Exists
<1>2. db' = [db EXCEPT ![t] = upd]
  BY DEF WriteRow
<1>3. /\ new.resolved_at \in BOOLEAN /\ old.resolved_at \in BOOLEAN
      /\ new.closed_at \in BOOLEAN /\ old.closed_at \in BOOLEAN
  BY <1>1 DEF Row
<1>4. new.resolved_at = old.resolved_at /\ new.closed_at = old.closed_at
  BY <1>3 DEF Holds, SafeWrite, STATUS_ENCERRADOS, Pending
<1>5. upd.resolved_at = cur.resolved_at /\ upd.closed_at = cur.closed_at
  BY <1>4 DEF Updated
<1> HIDE DEF upd, cur, old, new
<1>6. db'[t] = upd /\ \A u \in Ticket \ {t} : db'[u] = db[u]
  BY <1>1, <1>2
<1> QED
  <2> SUFFICES ASSUME NEW u \in Ticket, Exists(u)'
               PROVE  /\ db'[u].resolved_at => Reached(history[u].status, {"resolvido"})
                      /\ db'[u].closed_at => Reached(history[u].status, STATUS_ENCERRADOS)
    BY DEF OutcomeExplained, Reached
  <2>1. CASE u = t
    BY <2>1, <1>1, <1>5, <1>6 DEF IInv, OutcomeExplained, cur
  <2>2. CASE u # t
    BY <2>2, <1>6 DEF IInv, OutcomeExplained, Exists
  <2> QED
    BY <2>1, <2>2

\* A commit moves its session to a state x that has nothing loaded any more.
LEMMA CommitStep ==
    ASSUME IInv, Grows, NEW s \in Session, NEW x \in SessionState,
           ses' = [ses EXCEPT ![s] = x], SessionInv(s)'
    PROVE  ses' \in [Session -> SessionState] /\ \A q \in Session : SessionInv(q)'
<1>1. ses \in [Session -> SessionState]
  BY DEF IInv, TypeOK
<1>2. ASSUME NEW q \in Session, q # s
      PROVE  SessionInv(q)'
  BY <1>1, <1>2, OthersKeep
<1> QED
  BY <1>1, <1>2

--------------------------------------------------------------------------
(* The states sessions move to *)

LEMMA IdleType == Idle \in SessionState
BY DEF Idle, SessionState

LEMMA DecidingType ==
    ASSUME IInv, NEW t \in Ticket, Exists(t), NEW approved \in BOOLEAN, NEW rest \in SUBSET Ticket
    PROVE  Deciding(t, approved, rest) \in SessionState
<1>1. db[t] \in Row
  BY DEF IInv, TypeOK, Exists
<1>2. Decided(db[t], approved) \in Row
  BY <1>1, DecidedType
<1> QED
  BY <1>1, <1>2, IdleType DEF Deciding, SessionState

\* A session that has loaded a ticket to decide it keeps the invariant.
LEMMA DecidingInv ==
    ASSUME IInv, UNCHANGED db, NEW s \in Session, NEW t \in Ticket, Exists(t),
           NEW approved \in BOOLEAN, NEW rest \in SUBSET Ticket, \A u \in rest : Exists(u),
           ses'[s] = Deciding(t, approved, rest)
    PROVE  SessionInv(s)'
<1>1. db[t] \in Row /\ Stamped(db[t])
  BY DEF IInv, TypeOK, OutcomeStamped, Exists
<1>2. Decided(db[t], approved) \in Row /\ SafeWrite(db[t], Decided(db[t], approved))
  BY <1>1, DecidedType, DecisionIsSafe
<1>3. /\ ses'[s].pc = "decide" /\ ses'[s].ticket = t /\ ses'[s].snap = db[t]
      /\ ses'[s].new = Decided(db[t], approved) /\ ses'[s].todo = rest
  BY DEF Deciding, Idle
<1>4. Holds(s)'
  BY <1>1, <1>2, <1>3 DEF Holds, Exists
<1> QED
  BY <1>3, <1>4 DEF SessionInv, Exists

LEMMA EventsType ==
    ASSUME NEW old \in Row, NEW new \in Row
    PROVE  StatusEvent(old, new) \o AssignedEvent(old, new) \in Seq(Event)
<1>1. /\ old.status \in Status /\ new.status \in Status
      /\ old.assigned_to \in Technician \cup {None} /\ new.assigned_to \in Technician \cup {None}
  BY DEF Row
<1> DEFINE E1 == [type |-> "status_changed", old |-> old.status, new |-> new.status]
           E2 == [type |-> "assigned", old |-> None, new |-> new.assigned_to]
<1>2. E1 \in Event
  BY <1>1 DEF Event
<1>3. new.assigned_to \notin {old.assigned_to, None} => E2 \in Event
  BY <1>1 DEF Event
<1>4. <<>> \in Seq(Event) /\ \A e \in Event : <<e>> \in Seq(Event)
  OBVIOUS
<1>5. StatusEvent(old, new) = IF old.status = new.status THEN <<>> ELSE <<E1>>
  BY DEF StatusEvent
<1>6. AssignedEvent(old, new) =
          IF new.assigned_to \in {old.assigned_to, None} THEN <<>> ELSE <<E2>>
  BY DEF AssignedEvent
<1> HIDE DEF E1, E2
<1>7. StatusEvent(old, new) \in Seq(Event) /\ AssignedEvent(old, new) \in Seq(Event)
  BY <1>2, <1>3, <1>4, <1>5, <1>6
<1> QED
  BY <1>7

--------------------------------------------------------------------------
(* Every action preserves the invariant *)

LEMMA CreateTicketInv ==
    ASSUME IInv, NEW t \in Ticket, CreateTicket(t)
    PROVE  IInv'
<1>1. PICK opening \in Opening : db' = [db EXCEPT ![t] = NewRow(opening)]
  BY DEF CreateTicket
<1>2. NewRow(opening) \in Row /\ ~Exists(t)
  BY NewRowType DEF CreateTicket
<1>3. TypeOK'
  BY <1>1, <1>2 DEF IInv, TypeOK, CreateTicket
<1>4. Grows
  BY <1>1, <1>2 DEF Grows, Exists, IInv, TypeOK
<1>5. /\ db'[t] = NewRow(opening)
      /\ \A u \in Ticket \ {t} : db'[u] = db[u]
      /\ UNCHANGED <<history, ses>>
  BY <1>1 DEF IInv, TypeOK, CreateTicket
<1>6. Stamped(NewRow(opening)) /\ ~NewRow(opening).resolved_at /\ ~NewRow(opening).closed_at
  BY DEF NewRow, Stamped, STATUS_ENCERRADOS
<1>7. OutcomeStamped' /\ OutcomeExplained'
  BY <1>5, <1>6 DEF IInv, OutcomeStamped, OutcomeExplained, Exists
<1> QED
  BY <1>3, <1>4, <1>5, <1>7, OthersKeep DEF IInv

LEMMA CreateFromCatalogInv ==
    ASSUME IInv, NEW s \in Session, NEW t \in Ticket, CreateFromCatalog(s, t)
    PROVE  IInv'
<1>1. PICK opening \in Opening, item \in CatalogItem, vip \in BOOLEAN :
          /\ db' = [db EXCEPT ![t] = NewRow(opening)]
          /\ ses' = [ses EXCEPT ![s] = [Idle EXCEPT !.pc = "promote", !.ticket = t,
                                          !.snap = NewRow(opening),
                                          !.new = Promoted(NewRow(opening), item),
                                          !.vip = vip]]
  BY DEF CreateFromCatalog, Become
<1> DEFINE row == NewRow(opening)
           new == Promoted(row, item)
           x == [Idle EXCEPT !.pc = "promote", !.ticket = t, !.snap = row, !.new = new, !.vip = vip]
<1>2. row \in Row /\ new \in Row /\ ~Exists(t)
  BY NewRowType, PromotedType DEF CreateFromCatalog
<1>3. /\ Stamped(row) /\ SafeWrite(row, new) /\ new.status \in {"aberto", Pending}
      /\ new.catalog_item = item /\ ~row.resolved_at /\ ~row.closed_at
  BY PromotionIsSafe DEF NewRow
<1>4. x.pc = "promote" /\ x.ticket = t /\ x.snap = row /\ x.new = new /\ x.todo = {}
  BY DEF Idle
<1> HIDE DEF row, new
<1>5. x \in SessionState
  BY <1>2, IdleType DEF SessionState
<1>6. db' = [db EXCEPT ![t] = row] /\ ses' = [ses EXCEPT ![s] = x]
  BY <1>1 DEF row, new
<1> HIDE DEF x
<1>7. /\ db'[t] = row /\ db' \in [Ticket -> Row \cup {None}]
      /\ \A u \in Ticket \ {t} : db'[u] = db[u]
      /\ UNCHANGED history
      /\ ses'[s] = x
  BY <1>2, <1>6 DEF IInv, TypeOK, CreateFromCatalog
<1>8. Grows
  BY <1>2, <1>7 DEF Grows, Exists
<1>9. Holds(s)'
  BY <1>2, <1>3, <1>4, <1>7, ConstantsAssumption DEF Holds, Exists
<1>10. SessionInv(s)'
  BY <1>3, <1>4, <1>7, <1>9 DEF SessionInv
<1>11. ses' \in [Session -> SessionState] /\ \A q \in Session : SessionInv(q)'
  BY <1>5, <1>6, <1>8, <1>10, CommitStep
<1>12. TypeOK'
  BY <1>7, <1>11 DEF IInv, TypeOK, CreateFromCatalog
<1>13. OutcomeStamped' /\ OutcomeExplained'
  BY <1>3, <1>7 DEF IInv, OutcomeStamped, OutcomeExplained, Exists
<1> QED
  BY <1>11, <1>12, <1>13 DEF IInv

LEMMA PromoteInv ==
    ASSUME IInv, NEW s \in Session, Promote(s)
    PROVE  IInv'
<1>1. PICK x \in {Idle, [Idle EXCEPT !.pc = "vip", !.ticket = ses[s].ticket]} :
          ses' = [ses EXCEPT ![s] = x]
  BY DEF Promote, Become
<1>2. /\ SessionInv(s) /\ Holds(s) /\ WriteRow(s) /\ UNCHANGED history
      /\ ses[s].new.status \in {"aberto", Pending} /\ ses \in [Session -> SessionState]
  BY DEF IInv, TypeOK, Promote, SessionInv
<1>3. db' \in [Ticket -> Row \cup {None}] /\ Grows /\ OutcomeStamped'
  BY <1>2, CommitsRow
<1>4. OutcomeExplained'
  BY <1>2, PromotionNeedsNoHistory
<1>5. ses[s].ticket \in Ticket /\ db'[ses[s].ticket] # None
  BY <1>2, <1>3 DEF Holds, Grows, Exists
<1>6. x \in SessionState
  BY <1>5, IdleType DEF SessionState
<1>7. ses'[s] = x
  BY <1>1, <1>2
<1>8. SessionInv(s)'
  <2>1. CASE x = Idle
    BY <2>1, <1>7, IdleInv
  <2>2. CASE x = [Idle EXCEPT !.pc = "vip", !.ticket = ses[s].ticket]
    <3>1. x.pc = "vip" /\ x.ticket = ses[s].ticket /\ x.todo = {}
      BY <2>2 DEF Idle
    <3> QED
      BY <3>1, <1>5, <1>7 DEF SessionInv, Exists
  <2> QED
    BY <2>1, <2>2
<1>9. ses' \in [Session -> SessionState] /\ \A q \in Session : SessionInv(q)'
  BY <1>1, <1>3, <1>6, <1>8, CommitStep
<1>10. TypeOK'
  BY <1>3, <1>9 DEF IInv, TypeOK, Promote
<1> QED
  BY <1>3, <1>4, <1>9, <1>10 DEF IInv

LEMMA ApproveLoadInv ==
    ASSUME IInv, NEW s \in Session, NEW t \in Ticket, ApproveLoad(s, t)
    PROVE  IInv'
<1>1. PICK approved \in BOOLEAN : ses' = [ses EXCEPT ![s] = Deciding(t, approved, {})]
  BY DEF ApproveLoad, Become
<1>2. Exists(t) /\ UNCHANGED <<db, history>> /\ ses \in [Session -> SessionState]
  BY DEF ApproveLoad, IInv, TypeOK
<1>3. Deciding(t, approved, {}) \in SessionState
  BY <1>2, DecidingType
<1>4. SessionInv(s)'
  BY <1>1, <1>2, DecidingInv
<1>5. /\ ses' \in [Session -> SessionState] /\ OutcomeStamped' /\ OutcomeExplained'
      /\ \A q \in Session : SessionInv(q)'
  BY <1>1, <1>2, <1>3, <1>4, SessionStep
<1>6. TypeOK'
  BY <1>5 DEF IInv, TypeOK, ApproveLoad
<1> QED
  BY <1>5, <1>6 DEF IInv

LEMMA VipLoadInv ==
    ASSUME IInv, NEW s \in Session, VipLoad(s)
    PROVE  IInv'
<1> DEFINE t == ses[s].ticket
<1>1. PICK x \in {Idle, Deciding(t, TRUE, {})} : ses' = [ses EXCEPT ![s] = x]
  BY DEF VipLoad, Become
<1>2. /\ t \in Ticket /\ Exists(t) /\ UNCHANGED <<db, history>>
      /\ ses \in [Session -> SessionState] /\ ses'[s] = x
  BY <1>1 DEF VipLoad, IInv, TypeOK, SessionInv
<1>3. x \in SessionState
  BY <1>2, DecidingType, IdleType
<1>4. SessionInv(s)'
  <2>1. CASE x = Idle
    BY <2>1, <1>2, IdleInv
  <2>2. CASE x = Deciding(t, TRUE, {})
    <3>1. ses'[s] = Deciding(t, TRUE, {}) /\ UNCHANGED db
      BY <2>2, <1>2
    <3>2. TRUE \in BOOLEAN /\ {} \in SUBSET Ticket /\ \A u \in {} : Exists(u)
      OBVIOUS
    <3> HIDE DEF t
    <3> QED
      BY <3>1, <3>2, <1>2, DecidingInv
  <2> QED
    BY <2>1, <2>2
<1>5. /\ ses' \in [Session -> SessionState] /\ OutcomeStamped' /\ OutcomeExplained'
      /\ \A q \in Session : SessionInv(q)'
  BY <1>1, <1>2, <1>3, <1>4, SessionStep
<1>6. TypeOK'
  BY <1>5 DEF IInv, TypeOK, VipLoad
<1> QED
  BY <1>5, <1>6 DEF IInv

LEMMA SweepStartInv ==
    ASSUME IInv, NEW s \in Session, SweepStart(s)
    PROVE  IInv'
<1>1. PICK t \in Due : ses' = [ses EXCEPT ![s] = Deciding(t, AutoApproves(t), Due \ {t})]
  BY DEF SweepStart, Become
<1>2. /\ t \in Ticket /\ Exists(t) /\ \A u \in Due \ {t} : Exists(u)
      /\ Due \ {t} \in SUBSET Ticket /\ AutoApproves(t) \in BOOLEAN
  BY DEF Due, AutoApproves
<1>3. UNCHANGED <<db, history>> /\ ses \in [Session -> SessionState]
  BY DEF SweepStart, IInv, TypeOK
<1>4. Deciding(t, AutoApproves(t), Due \ {t}) \in SessionState
  BY <1>2, DecidingType
<1>5. ses'[s] = Deciding(t, AutoApproves(t), Due \ {t})
  BY <1>1, <1>3
<1>6. SessionInv(s)'
  BY <1>2, <1>3, <1>5, DecidingInv
<1>7. /\ ses' \in [Session -> SessionState] /\ OutcomeStamped' /\ OutcomeExplained'
      /\ \A q \in Session : SessionInv(q)'
  BY <1>1, <1>3, <1>4, <1>6, SessionStep
<1>8. TypeOK'
  BY <1>7 DEF IInv, TypeOK, SweepStart
<1> QED
  BY <1>7, <1>8 DEF IInv

LEMMA SweepNextInv ==
    ASSUME IInv, NEW s \in Session, SweepNext(s)
    PROVE  IInv'
<1> DEFINE todo == ses[s].todo
<1>1. PICK t \in todo : \E x \in {Idle, Deciding(t, AutoApproves(t), todo \ {t})} :
          ses' = [ses EXCEPT ![s] = x]
  BY DEF SweepNext, Become
<1>2. PICK x \in {Idle, Deciding(t, AutoApproves(t), todo \ {t})} : ses' = [ses EXCEPT ![s] = x]
  BY <1>1
<1>3. todo \in SUBSET Ticket /\ ses \in [Session -> SessionState]
  BY DEF IInv, TypeOK, SessionState
<1>4. /\ t \in Ticket /\ Exists(t) /\ \A u \in todo \ {t} : Exists(u)
      /\ todo \ {t} \in SUBSET Ticket /\ AutoApproves(t) \in BOOLEAN
  BY <1>1, <1>3 DEF AutoApproves, IInv, SessionInv
<1>5. UNCHANGED <<db, history>> /\ ses'[s] = x
  BY <1>2, <1>3 DEF SweepNext
<1>6. x \in SessionState
  BY <1>4, DecidingType, IdleType
<1>7. SessionInv(s)'
  BY <1>4, <1>5, DecidingInv, IdleInv
<1>8. /\ ses' \in [Session -> SessionState] /\ OutcomeStamped' /\ OutcomeExplained'
      /\ \A q \in Session : SessionInv(q)'
  BY <1>2, <1>5, <1>6, <1>7, SessionStep
<1>9. TypeOK'
  BY <1>8 DEF IInv, TypeOK, SweepNext
<1> QED
  BY <1>8, <1>9 DEF IInv

LEMMA DecideInv ==
    ASSUME IInv, NEW s \in Session, Decide(s)
    PROVE  IInv'
<1> DEFINE todo == ses[s].todo
<1>1. PICK x \in {Idle, [Idle EXCEPT !.pc = "sweep", !.todo = todo]} :
          ses' = [ses EXCEPT ![s] = x]
  BY DEF Decide, Become
<1>2. /\ SessionInv(s) /\ Holds(s) /\ WriteRow(s) /\ WriteHistory(s)
      /\ ses \in [Session -> SessionState] /\ todo \in SUBSET Ticket
  BY DEF IInv, TypeOK, Decide, SessionInv, SessionState
<1>3. db' \in [Ticket -> Row \cup {None}] /\ Grows /\ OutcomeStamped'
  BY <1>2, CommitsRow
<1>4. history' \in [Ticket -> Log] /\ OutcomeExplained'
  BY <1>2, CommitsHistory
<1>5. x \in SessionState
  BY <1>2, IdleType DEF SessionState
<1>6. ses'[s] = x /\ \A u \in todo : Exists(u)'
  BY <1>1, <1>2, <1>3 DEF SessionInv, Grows
<1>7. SessionInv(s)'
  <2>1. CASE x = Idle
    BY <2>1, <1>6, IdleInv
  <2>2. CASE x = [Idle EXCEPT !.pc = "sweep", !.todo = todo]
    <3>1. x.pc = "sweep" /\ x.todo = todo
      BY <2>2 DEF Idle
    <3> QED
      BY <3>1, <1>6 DEF SessionInv, Exists
  <2> QED
    BY <2>1, <2>2
<1>8. ses' \in [Session -> SessionState] /\ \A q \in Session : SessionInv(q)'
  BY <1>1, <1>3, <1>5, <1>7, CommitStep
<1>9. TypeOK'
  BY <1>3, <1>4, <1>8 DEF IInv, TypeOK, Decide
<1> QED
  BY <1>3, <1>4, <1>8, <1>9 DEF IInv

LEMMA PatchLoadInv ==
    ASSUME IInv, NEW s \in Session, NEW t \in Ticket, PatchLoad(s, t)
    PROVE  IInv'
<1>1. PICK p \in Patch, role \in Role :
          ses' = [ses EXCEPT ![s] = [Idle EXCEPT !.pc = IF Assigns(p) THEN "check" ELSE "patch",
                                       !.ticket = t, !.snap = db[t],
                                       !.new = PatchedRow(db[t], p), !.role = role]]
  BY DEF PatchLoad, Become
<1> DEFINE pc == IF Assigns(p) THEN "check" ELSE "patch"
           row == db[t]
           new == PatchedRow(row, p)
           x == [Idle EXCEPT !.pc = pc, !.ticket = t, !.snap = row, !.new = new, !.role = role]
<1>2. /\ row \in Row /\ Stamped(row) /\ Exists(t) /\ UNCHANGED <<db, history>>
      /\ ses \in [Session -> SessionState]
  BY DEF PatchLoad, IInv, TypeOK, OutcomeStamped, Exists
<1>3. new \in Row /\ SafeWrite(row, new)
  BY <1>2, PatchedRowType, PatchIsSafe
<1>4. pc \in {"check", "patch"}
  OBVIOUS
<1>5. x.pc = pc /\ x.ticket = t /\ x.snap = row /\ x.new = new /\ x.todo = {}
  BY DEF Idle
<1> HIDE DEF new, pc
<1>6. x \in SessionState
  BY <1>2, <1>3, <1>4, IdleType DEF SessionState
<1>7. ses' = [ses EXCEPT ![s] = x]
  BY <1>1 DEF new, pc
<1> HIDE DEF x
<1>8. ses'[s] = x
  BY <1>2, <1>7
<1>9. Holds(s)'
  BY <1>2, <1>3, <1>5, <1>8 DEF Holds, Exists
<1>10. SessionInv(s)'
  BY <1>4, <1>5, <1>8, <1>9 DEF SessionInv
<1>11. /\ ses' \in [Session -> SessionState] /\ OutcomeStamped' /\ OutcomeExplained'
       /\ \A q \in Session : SessionInv(q)'
  BY <1>2, <1>6, <1>7, <1>10, SessionStep
<1>12. patches' \in 0..MaxPatches
  BY ConstantsAssumption DEF PatchLoad, IInv, TypeOK
<1>13. TypeOK'
  BY <1>11, <1>12 DEF IInv, TypeOK, PatchLoad
<1> QED
  BY <1>11, <1>13 DEF IInv

LEMMA PatchCheckInv ==
    ASSUME IInv, NEW s \in Session, PatchCheck(s)
    PROVE  IInv'
<1>1. PICK x \in {Idle, [ses[s] EXCEPT !.pc = "patch"]} : ses' = [ses EXCEPT ![s] = x]
  BY DEF PatchCheck, Become
<1>2. /\ UNCHANGED <<db, history>> /\ ses \in [Session -> SessionState]
      /\ ses[s] \in SessionState /\ SessionInv(s) /\ ses[s].pc = "check"
  BY DEF PatchCheck, IInv, TypeOK
<1>3. x \in SessionState /\ ses'[s] = x
  BY <1>1, <1>2, IdleType DEF SessionState
<1>4. SessionInv(s)'
  <2>1. CASE x = Idle
    BY <2>1, <1>3, IdleInv
  <2>2. CASE x = [ses[s] EXCEPT !.pc = "patch"]
    <3>1. /\ x.pc = "patch" /\ x.ticket = ses[s].ticket /\ x.snap = ses[s].snap
          /\ x.new = ses[s].new /\ x.todo = ses[s].todo
      BY <2>2, <1>2 DEF SessionState
    <3>2. Holds(s)'
      BY <3>1, <1>2, <1>3 DEF SessionInv, Holds, Exists
    <3>3. \A u \in ses[s].todo : Exists(u)'
      BY <1>2 DEF SessionInv, Exists
    <3> QED
      BY <3>1, <3>2, <3>3, <1>3 DEF SessionInv
  <2> QED
    BY <2>1, <2>2
<1>5. /\ ses' \in [Session -> SessionState] /\ OutcomeStamped' /\ OutcomeExplained'
      /\ \A q \in Session : SessionInv(q)'
  BY <1>1, <1>2, <1>3, <1>4, SessionStep
<1>6. TypeOK'
  BY <1>5 DEF IInv, TypeOK, PatchCheck
<1> QED
  BY <1>5, <1>6 DEF IInv

LEMMA PatchCommitInv ==
    ASSUME IInv, NEW s \in Session, PatchCommit(s)
    PROVE  IInv'
<1> DEFINE t == ses[s].ticket
           events == StatusEvent(ses[s].snap, ses[s].new) \o AssignedEvent(ses[s].snap, ses[s].new)
           busy == [Idle EXCEPT !.pc = "notify", !.ticket = t, !.events = events]
<1>1. ses' = [ses EXCEPT ![s] = IF events = <<>> THEN Idle ELSE busy]
  BY DEF PatchCommit, Become
<1>2. /\ SessionInv(s) /\ Holds(s) /\ WriteRow(s) /\ WriteHistory(s)
      /\ ses \in [Session -> SessionState]
  BY DEF IInv, TypeOK, PatchCommit, SessionInv
<1>3. db' \in [Ticket -> Row \cup {None}] /\ Grows /\ OutcomeStamped'
  BY <1>2, CommitsRow
<1>4. history' \in [Ticket -> Log] /\ OutcomeExplained'
  BY <1>2, CommitsHistory
<1>5. events \in Seq(Event)
  BY <1>2, EventsType DEF Holds
<1>6. t \in Ticket /\ db'[t] # None
  BY <1>2, <1>3 DEF Holds, Grows, Exists
<1>7. busy.pc = "notify" /\ busy.ticket = t /\ busy.events = events /\ busy.todo = {}
  BY DEF Idle
<1> HIDE DEF events
<1>8. busy \in SessionState
  BY <1>5, <1>6, IdleType DEF SessionState
<1> HIDE DEF busy
<1>9. CASE events = <<>>
  <2>1. ses' = [ses EXCEPT ![s] = Idle] /\ ses'[s] = Idle
    BY <1>1, <1>2, <1>9
  <2>2. SessionInv(s)'
    BY <2>1, IdleInv
  <2>3. ses' \in [Session -> SessionState] /\ \A q \in Session : SessionInv(q)'
    BY <2>1, <2>2, <1>3, IdleType, CommitStep
  <2>4. TypeOK'
    BY <2>3, <1>3, <1>4 DEF IInv, TypeOK, PatchCommit
  <2> QED
    BY <2>3, <2>4, <1>3, <1>4 DEF IInv
<1>10. CASE events # <<>>
  <2>1. ses' = [ses EXCEPT ![s] = busy] /\ ses'[s] = busy
    BY <1>1, <1>2, <1>10
  <2>2. SessionInv(s)'
    BY <2>1, <1>6, <1>7, <1>10 DEF SessionInv, Exists
  <2>3. ses' \in [Session -> SessionState] /\ \A q \in Session : SessionInv(q)'
    BY <2>1, <2>2, <1>3, <1>8, CommitStep
  <2>4. TypeOK'
    BY <2>3, <1>3, <1>4 DEF IInv, TypeOK, PatchCommit
  <2> QED
    BY <2>3, <2>4, <1>3, <1>4 DEF IInv
<1> QED
  BY <1>9, <1>10

LEMMA NotifyInv ==
    ASSUME IInv, NEW s \in Session, Notify(s)
    PROVE  IInv'
<1> DEFINE t == ses[s].ticket
           events == ses[s].events
           rest == Remaining(events)
           x == IF rest = <<>> THEN Idle ELSE [ses[s] EXCEPT !.events = rest]
<1>1. /\ outbox' = [outbox EXCEPT ![t] = Append(@, Head(events))]
      /\ ses' = [ses EXCEPT ![s] = x]
      /\ ses[s].pc = "notify"
      /\ UNCHANGED <<db, history>>
  BY DEF Notify, Become
<1>2. /\ ses \in [Session -> SessionState] /\ ses[s] \in SessionState /\ SessionInv(s)
      /\ events \in Seq(Event) /\ events # <<>> /\ t \in Ticket /\ Exists(t)
      /\ outbox \in [Ticket -> Seq(Event)]
  BY <1>1 DEF IInv, TypeOK, SessionInv, SessionState
<1>3. Head(events) \in Event /\ rest \in Seq(Event)
  BY <1>2 DEF Remaining
<1>4. outbox' \in [Ticket -> Seq(Event)]
  <2>1. Append(outbox[t], Head(events)) \in Seq(Event)
    BY <1>2, <1>3
  <2> QED
    BY <2>1, <1>1, <1>2
<1> HIDE DEF rest
<1>5. x \in SessionState
  BY <1>2, <1>3, IdleType DEF SessionState
<1>6. SessionInv(s)'
  <2>1. CASE rest = <<>>
    <3>1. ses'[s] = Idle
      BY <2>1, <1>1, <1>2
    <3> QED
      BY <3>1, IdleInv
  <2>2. CASE rest # <<>>
    <3>1. ses'[s] = [ses[s] EXCEPT !.events = rest]
      BY <2>2, <1>1, <1>2
    <3>2. /\ ses'[s].pc = "notify" /\ ses'[s].ticket = t /\ ses'[s].events = rest
          /\ ses'[s].todo = ses[s].todo
      BY <3>1, <1>1, <1>2 DEF SessionState
    <3>3. db'[t] # None /\ \A u \in ses[s].todo : db'[u] # None
      BY <1>1, <1>2 DEF SessionInv, Exists
    <3> QED
      BY <3>2, <3>3, <2>2, <1>2 DEF SessionInv, Exists
  <2> QED
    BY <2>1, <2>2
<1>7. /\ ses' \in [Session -> SessionState] /\ OutcomeStamped' /\ OutcomeExplained'
      /\ \A q \in Session : SessionInv(q)'
  <2> HIDE DEF x
  <2> QED
    BY <1>1, <1>5, <1>6, SessionStep
<1>8. TypeOK'
  BY <1>4, <1>7 DEF IInv, TypeOK, Notify
<1> QED
  BY <1>7, <1>8 DEF IInv

LEMMA CrashInv ==
    ASSUME IInv, NEW s \in Session, Crash(s)
    PROVE  IInv'
<1>1. ses' = [ses EXCEPT ![s] = Idle] /\ UNCHANGED <<db, history>>
  BY DEF Crash, Become
<1>2. ses'[s] = Idle
  BY <1>1 DEF IInv, TypeOK
<1>3. SessionInv(s)'
  BY <1>2, IdleInv
<1>4. /\ ses' \in [Session -> SessionState] /\ OutcomeStamped' /\ OutcomeExplained'
      /\ \A q \in Session : SessionInv(q)'
  BY <1>1, <1>3, IdleType, SessionStep
<1>5. crashes' \in 0..MaxCrashes
  BY ConstantsAssumption DEF Crash, IInv, TypeOK
<1>6. TypeOK'
  BY <1>4, <1>5 DEF IInv, TypeOK, Crash
<1> QED
  BY <1>4, <1>6 DEF IInv

LEMMA DeadlineInv ==
    ASSUME IInv, NEW t \in Ticket, DeadlinePasses(t)
    PROVE  IInv'
<1>1. UNCHANGED <<db, history, ses>> /\ overdue' = [overdue EXCEPT ![t] = TRUE]
  BY DEF DeadlinePasses
<1>2. OutcomeStamped' /\ OutcomeExplained' /\ \A q \in Session : SessionInv(q)'
  BY <1>1, OtherStep
<1>3. TypeOK'
  BY <1>1 DEF IInv, TypeOK, DeadlinePasses
<1> QED
  BY <1>2, <1>3 DEF IInv

LEMMA MembershipInv ==
    ASSUME IInv, NEW team \in Team, NEW technician \in Technician,
           AddMember(team, technician) \/ RemoveMember(team, technician)
    PROVE  IInv'
<1>1. UNCHANGED <<db, history, ses, outbox, overdue, patches, crashes>>
  BY DEF AddMember, RemoveMember
<1>2. OutcomeStamped' /\ OutcomeExplained' /\ \A q \in Session : SessionInv(q)'
  BY <1>1, OtherStep
<1>3. members' \subseteq Team \X Technician
  BY DEF IInv, TypeOK, AddMember, RemoveMember
<1>4. TypeOK'
  BY <1>1, <1>3 DEF IInv, TypeOK
<1> QED
  BY <1>2, <1>4 DEF IInv

LEMMA StutterInv ==
    ASSUME IInv, UNCHANGED vars
    PROVE  IInv'
<1>1. UNCHANGED <<db, history, ses>>
  BY DEF vars
<1>2. OutcomeStamped' /\ OutcomeExplained' /\ \A q \in Session : SessionInv(q)'
  BY <1>1, OtherStep
<1>3. TypeOK'
  BY DEF IInv, TypeOK, vars
<1> QED
  BY <1>2, <1>3 DEF IInv

--------------------------------------------------------------------------
(* The theorems *)

LEMMA InitInv == Init => IInv
<1> SUFFICES ASSUME Init
             PROVE  IInv
  OBVIOUS
<1>1. EmptyLog \in Log
  BY DEF EmptyLog, Log
<1>2. TypeOK
  BY <1>1, IdleType, ConstantsAssumption DEF Init, TypeOK
<1>3. OutcomeStamped /\ OutcomeExplained
  BY DEF Init, OutcomeStamped, OutcomeExplained, Exists
<1>4. ASSUME NEW s \in Session
      PROVE  SessionInv(s)
  BY <1>4 DEF Init, SessionInv, Idle
<1> QED
  BY <1>2, <1>3, <1>4 DEF IInv

LEMMA NextInv == IInv /\ [Next]_vars => IInv'
<1> SUFFICES ASSUME IInv, [Next]_vars
             PROVE  IInv'
  OBVIOUS
<1>1. ASSUME NEW s \in Session, Proceed(s)
      PROVE  IInv'
  BY <1>1, PatchCheckInv, PatchCommitInv, NotifyInv, PromoteInv, VipLoadInv, SweepNextInv,
     DecideInv DEF Proceed
<1>2. ASSUME NEW s \in Session, SweepStart(s) \/ Crash(s)
      PROVE  IInv'
  BY <1>2, SweepStartInv, CrashInv
<1>3. ASSUME NEW s \in Session, NEW t \in Ticket,
             CreateFromCatalog(s, t) \/ ApproveLoad(s, t) \/ PatchLoad(s, t)
      PROVE  IInv'
  BY <1>3, CreateFromCatalogInv, ApproveLoadInv, PatchLoadInv
<1>4. ASSUME NEW t \in Ticket, CreateTicket(t) \/ DeadlinePasses(t)
      PROVE  IInv'
  BY <1>4, CreateTicketInv, DeadlineInv
<1>5. ASSUME NEW team \in Team, NEW technician \in Technician,
             AddMember(team, technician) \/ RemoveMember(team, technician)
      PROVE  IInv'
  BY <1>5, MembershipInv
<1>6. CASE UNCHANGED vars
  BY <1>6, StutterInv
<1> QED
  BY <1>1, <1>2, <1>3, <1>4, <1>5, <1>6 DEF Next

\* Every behaviour of the ticket services keeps the inductive invariant.
THEOREM InductiveInvariant == Spec => []IInv
<1>1. Init => IInv
  BY InitInv
<1>2. IInv /\ [Next]_vars => IInv'
  BY NextInv
<1> QED
  BY <1>1, <1>2, PTL DEF Spec

\* Whatever the sessions interleave or lose, the tables and the sessions' loaded
\* rows hold values of their columns.
THEOREM TypeCorrect == Spec => []TypeOK
<1>1. IInv => TypeOK
  BY DEF IInv
<1> QED
  BY <1>1, InductiveInvariant, PTL

\* update_ticket and approve_ticket may overwrite each other's status, but a
\* resolved ticket has resolved_at and a closed or cancelled one closed_at.
THEOREM OutcomeAlwaysStamped == Spec => []OutcomeStamped
<1>1. IInv => OutcomeStamped
  BY DEF IInv
<1> QED
  BY <1>1, InductiveInvariant, PTL

\* resolved_at and closed_at are never there without a history entry that reached
\* that outcome: the two are committed together, and neither is ever taken back.
THEOREM OutcomeAlwaysExplained == Spec => []OutcomeExplained
<1>1. IInv => OutcomeExplained
  BY DEF IInv
<1> QED
  BY <1>1, InductiveInvariant, PTL

--------------------------------------------------------------------------
(* No event without its history row *)

StatusChange(old, new) == [type |-> "status_changed", old |-> old, new |-> new]

\* The sessions that have committed this change of t and still have to report it.
Waiting(t, old, new) ==
    {s \in Session : /\ ses[s].pc = "notify" /\ ses[s].ticket = t
                     /\ ses[s].events[1] = StatusChange(old, new)}

\* A report of a status change names two statuses.
Names(e) == e.type = "status_changed" => e.old \in Status /\ e.new \in Status

\* What a session has to report: at most one status change, which comes first.
Agenda(events) ==
    \A i \in DOMAIN events : Names(events[i]) /\ (i # 1 => events[i].type # "status_changed")

\* Every report of a change, made or still to be made, has a history row of its own.
EventsInv ==
    /\ \A s \in Session : ses[s].pc = "notify" => Agenda(ses[s].events)
    /\ \A t \in Ticket : \A i \in DOMAIN outbox[t] : Names(outbox[t][i])
    /\ \A t \in Ticket, old \in Status, new \in Status :
          /\ IsFiniteSet(Waiting(t, old, new))
          /\ Announced(outbox[t], old, new) + Cardinality(Waiting(t, old, new))
                <= Occurrences(history[t].status, old, new)

\* The places at which a sequence holds a value of V.
Places(l, V) == {i \in DOMAIN l : l[i] \in V}

LEMMA PlacesOfAppend ==
    ASSUME NEW S, NEW l \in Seq(S), NEW x \in S, NEW V
    PROVE  /\ Cardinality(Places(l, V)) \in Nat
           /\ Cardinality(Places(Append(l, x), V))
                 = Cardinality(Places(l, V)) + (IF x \in V THEN 1 ELSE 0)
<1>1. /\ Len(l) \in Nat /\ DOMAIN l = 1..Len(l)
      /\ DOMAIN Append(l, x) = 1..(Len(l) + 1)
      /\ Append(l, x)[Len(l) + 1] = x
      /\ \A i \in 1..Len(l) : Append(l, x)[i] = l[i]
  OBVIOUS
<1>2. IsFiniteSet(Places(l, V)) /\ Cardinality(Places(l, V)) \in Nat
  <2>1. IsFiniteSet(1..Len(l))
    BY <1>1, FS_Interval
  <2>2. Places(l, V) \subseteq 1..Len(l)
    BY <1>1 DEF Places
  <2> QED BY <2>1, <2>2, FS_Subset, FS_CardinalityType
<1>3. CASE x \in V
  <2>1. Places(Append(l, x), V) = Places(l, V) \cup {Len(l) + 1} /\ Len(l) + 1 \notin Places(l, V)
    BY <1>1, <1>3 DEF Places
  <2> QED BY <1>2, <1>3, <2>1, FS_AddElement
<1>4. CASE x \notin V
  <2>1. Places(Append(l, x), V) = Places(l, V)
    BY <1>1, <1>4 DEF Places
  <2> QED BY <1>2, <1>4, <2>1
<1> QED BY <1>2, <1>3, <1>4

\* A commit adds the row of the change it makes, and no other.
LEMMA OccurrencesAfter ==
    ASSUME NEW log \in Seq(Change(Status)), NEW from \in Status, NEW to \in Status,
           NEW old \in Status, NEW new \in Status
    PROVE  /\ Occurrences(log, old, new) \in Nat
           /\ Occurrences(LogChange(log, from, to), old, new)
                 = Occurrences(log, old, new)
                   + (IF from # to /\ old = from /\ new = to THEN 1 ELSE 0)
<1> DEFINE V == {[old |-> old, new |-> new]}
           x == [old |-> from, new |-> to]
<1>1. x \in Change(Status) /\ (x \in V <=> old = from /\ new = to)
  BY DEF Change
<1>2. \A l \in Seq(Change(Status)) : Occurrences(l, old, new) = Cardinality(Places(l, V))
  <2> SUFFICES ASSUME NEW l \in Seq(Change(Status))
               PROVE  {i \in DOMAIN l : l[i].old = old /\ l[i].new = new} = Places(l, V)
    BY DEF Occurrences
  <2>1. \A i \in DOMAIN l : l[i] \in Change(Status)
    OBVIOUS
  <2>2. \A e \in Change(Status) : e.old = old /\ e.new = new <=> e = [old |-> old, new |-> new]
    BY DEF Change
  <2> QED BY <2>1, <2>2 DEF Places
<1>3. Append(log, x) \in Seq(Change(Status))
  BY <1>1
<1> HIDE DEF V
<1>4. /\ Cardinality(Places(log, V)) \in Nat
      /\ Cardinality(Places(Append(log, x), V))
            = Cardinality(Places(log, V)) + (IF x \in V THEN 1 ELSE 0)
  BY <1>1, PlacesOfAppend
<1>5. CASE from = to
  BY <1>2, <1>4, <1>5 DEF LogChange
<1>6. CASE from # to
  <2>1. LogChange(log, from, to) = Append(log, x)
    BY <1>6 DEF LogChange
  <2>2. Occurrences(Append(log, x), old, new) = Cardinality(Places(Append(log, x), V))
    BY <1>2, <1>3
  <2> QED BY <1>1, <1>2, <1>4, <1>6, <2>1, <2>2
<1> QED BY <1>5, <1>6

LEMMA AnnouncedAfter ==
    ASSUME NEW sent \in Seq(Event), NEW e \in Event, NEW old \in Status, NEW new \in Status
    PROVE  /\ Announced(sent, old, new) \in Nat
           /\ Announced(Append(sent, e), old, new)
                 = Announced(sent, old, new) + (IF e = StatusChange(old, new) THEN 1 ELSE 0)
<1> DEFINE V == {StatusChange(old, new)}
<1>1. \A l : Announced(l, old, new) = Cardinality(Places(l, V))
  BY DEF Announced, Places, StatusChange
<1>2. e \in V <=> e = StatusChange(old, new)
  OBVIOUS
<1> HIDE DEF V
<1> QED BY <1>1, <1>2, PlacesOfAppend

\* What the commit of a session adds to the history of a ticket.
LEMMA HistoryAfter ==
    ASSUME IInv, NEW s \in Session, Holds(s), WriteHistory(s), NEW t \in Ticket,
           NEW old \in Status, NEW new \in Status
    PROVE  /\ Occurrences(history[t].status, old, new) \in Nat
           /\ Occurrences(history'[t].status, old, new)
                 = Occurrences(history[t].status, old, new)
                   + (IF /\ t = ses[s].ticket /\ ses[s].snap.status # ses[s].new.status
                         /\ old = ses[s].snap.status /\ new = ses[s].new.status
                      THEN 1 ELSE 0)
<1> DEFINE u == ses[s].ticket
           from == ses[s].snap.status
           to == ses[s].new.status
<1>1. /\ u \in Ticket /\ from \in Status /\ to \in Status
      /\ history \in [Ticket -> Log]
      /\ history' = [history EXCEPT ![u] = LogRow(history[u], ses[s].snap, ses[s].new)]
  BY DEF IInv, TypeOK, Holds, Row, WriteHistory
<1>2. \A v \in Ticket : history[v].status \in Seq(Change(Status))
  BY <1>1 DEF Log
<1>3. history'[u].status = LogChange(history[u].status, from, to)
  BY <1>1 DEF LogRow
<1>4. CASE t = u
  <2>1. /\ Occurrences(history[u].status, old, new) \in Nat
        /\ Occurrences(LogChange(history[u].status, from, to), old, new)
              = Occurrences(history[u].status, old, new)
                + (IF from # to /\ old = from /\ new = to THEN 1 ELSE 0)
    <3>1. from \in Status /\ to \in Status /\ history[u].status \in Seq(Change(Status))
      BY <1>1, <1>2
    <3> HIDE DEF u, from, to
    <3> QED BY <3>1, OccurrencesAfter
  <2> QED BY <1>3, <1>4, <2>1
<1>5. CASE t # u
  <2>1. history'[t] = history[t]
    BY <1>1, <1>5
  <2> QED BY <1>1, <1>2, <1>5, <2>1, OccurrencesAfter
<1> QED BY <1>4, <1>5

\* A step after which nobody has more to report, the history rows included that it may add.
LEMMA NothingToReport ==
    ASSUME IInv, EventsInv, UNCHANGED outbox,
           \A q \in Session : ses'[q].pc = "notify" =>
               \/ ses'[q] = ses[q]
               \/ /\ 1 \in DOMAIN ses'[q].events
                  /\ \A i \in DOMAIN ses'[q].events : ses'[q].events[i].type # "status_changed",
           \/ UNCHANGED history
           \/ \E s \in Session : Holds(s) /\ WriteHistory(s)
    PROVE  EventsInv'
<1>1. \A q \in Session : ses'[q].pc = "notify" => Agenda(ses'[q].events)
  BY DEF EventsInv, Agenda, Names
<1>2. ASSUME NEW t \in Ticket, NEW old \in Status, NEW new \in Status
      PROVE  /\ IsFiniteSet(Waiting(t, old, new)')
             /\ Announced(outbox[t], old, new) + Cardinality(Waiting(t, old, new)')
                   <= Occurrences(history'[t].status, old, new)
  <2>1. Waiting(t, old, new)' \subseteq Waiting(t, old, new)
    BY DEF Waiting, StatusChange
  <2>2. /\ IsFiniteSet(Waiting(t, old, new))
        /\ Announced(outbox[t], old, new) + Cardinality(Waiting(t, old, new))
              <= Occurrences(history[t].status, old, new)
    BY DEF EventsInv
  <2>3. /\ IsFiniteSet(Waiting(t, old, new)')
        /\ Cardinality(Waiting(t, old, new)') \in Nat
        /\ Cardinality(Waiting(t, old, new)) \in Nat
        /\ Cardinality(Waiting(t, old, new)') <= Cardinality(Waiting(t, old, new))
    <3> HIDE DEF Waiting
    <3> QED BY <2>1, <2>2, FS_Subset, FS_CardinalityType
  <2>4. Announced(outbox[t], old, new) \in Nat
    <3>1. outbox[t] \in Seq(Event) /\ StatusChange(old, new) \in Event
      BY DEF IInv, TypeOK, StatusChange, Event
    <3> QED BY <3>1, AnnouncedAfter
  <2>5. /\ Occurrences(history[t].status, old, new) \in Nat
        /\ Occurrences(history'[t].status, old, new) \in Nat
        /\ Occurrences(history[t].status, old, new) <= Occurrences(history'[t].status, old, new)
    <3>1. CASE UNCHANGED history
      <4>1. history[t].status \in Seq(Change(Status))
        BY DEF IInv, TypeOK, Log
      <4>2. Occurrences(history[t].status, old, new) \in Nat
        BY <4>1, OccurrencesAfter
      <4> QED BY <3>1, <4>2
    <3>2. CASE \E s \in Session : Holds(s) /\ WriteHistory(s)
      BY <3>2, HistoryAfter
    <3> QED BY <3>1, <3>2
  <2> QED BY <2>2, <2>3, <2>4, <2>5
<1> QED BY <1>1, <1>2 DEF EventsInv

\* update_ticket commits: it writes the history row of a status change, and owes its event.
LEMMA PatchCommitEvents ==
    ASSUME IInv, EventsInv, NEW s \in Session, PatchCommit(s)
    PROVE  EventsInv'
<1> DEFINE u == ses[s].ticket
           from == ses[s].snap.status
           to == ses[s].new.status
           status == StatusEvent(ses[s].snap, ses[s].new)
           assigned == AssignedEvent(ses[s].snap, ses[s].new)
           events == status \o assigned
           x == IF events = <<>> THEN Idle
                ELSE [Idle EXCEPT !.pc = "notify", !.ticket = u, !.events = events]
<1>1. /\ ses \in [Session -> SessionState] /\ ses' = [ses EXCEPT ![s] = x] /\ ses[s].pc = "patch"
      /\ Holds(s) /\ WriteHistory(s) /\ UNCHANGED outbox
      /\ u \in Ticket /\ from \in Status /\ to \in Status
  BY DEF IInv, TypeOK, SessionInv, Holds, Row, PatchCommit, Become
<1>2. \/ assigned = <<>>
      \/ \E a : a.type = "assigned" /\ assigned = <<a>>
  <2>1. [type |-> "assigned", old |-> None, new |-> ses[s].new.assigned_to].type = "assigned"
    OBVIOUS
  <2> QED BY <2>1 DEF AssignedEvent
<1>3. x = Idle \/ (x.pc = "notify" /\ x.ticket = u /\ x.events = events)
  BY DEF Idle
<1>4. \A q \in Session : q # s => ses'[q] = ses[q]
  BY <1>1
<1>5. ses'[s] = x
  BY <1>1
<1>6. CASE from = to
  <2>1. events = assigned
    <3>1. status = <<>>
      BY <1>6 DEF StatusEvent
    <3> QED BY <1>2, <3>1
  <2>2. x.pc = "notify" => /\ 1 \in DOMAIN x.events
                          /\ \A i \in DOMAIN x.events : x.events[i].type # "status_changed"
    <3>1. CASE assigned = <<>>
      BY <2>1, <3>1 DEF Idle
    <3>2. CASE assigned # <<>>
      <4>1. PICK a : a.type = "assigned" /\ assigned = <<a>>
        BY <1>2, <3>2
      <4>2. x.events = <<a>>
        BY <2>1, <3>2, <4>1 DEF Idle
      <4> QED BY <4>1, <4>2
    <3> QED BY <3>1, <3>2
  <2> HIDE DEF x
  <2> QED BY <1>1, <1>4, <1>5, <2>2, NothingToReport
<1>7. CASE from # to
  <2>1. status = <<StatusChange(from, to)>>
    BY <1>7 DEF StatusEvent, StatusChange
  <2>2. /\ events # <<>> /\ events[1] = StatusChange(from, to)
        /\ Agenda(events)
    <3>1. StatusChange(from, to).type = "status_changed" /\ Names(StatusChange(from, to))
      BY <1>1 DEF StatusChange, Names
    <3>2. CASE assigned = <<>>
      <4>1. events = <<StatusChange(from, to)>>
        BY <2>1, <3>2
      <4> QED BY <3>1, <4>1 DEF Agenda
    <3>3. CASE assigned # <<>>
      <4>1. PICK a : a.type = "assigned" /\ assigned = <<a>>
        BY <1>2, <3>3
      <4>2. DOMAIN events = 1..2 /\ events[1] = StatusChange(from, to) /\ events[2] = a
        <5>1. events = <<StatusChange(from, to)>> \o <<a>>
          BY <2>1, <4>1
        <5> HIDE DEF events
        <5>2. \A b : DOMAIN (<<b>> \o <<a>>) = 1..2 /\ (<<b>> \o <<a>>)[1] = b
                     /\ (<<b>> \o <<a>>)[2] = a
          OBVIOUS
        <5> QED BY <5>1, <5>2
      <4>3. events # <<>>
        BY <4>2
      <4> QED BY <3>1, <4>1, <4>2, <4>3 DEF Agenda, Names
    <3> QED BY <3>2, <3>3
  <2>3. x.pc = "notify" /\ x.ticket = u /\ x.events = events
    BY <2>2 DEF Idle
  <2> HIDE DEF x, events
  <2>4. \A q \in Session : ses'[q].pc = "notify" => Agenda(ses'[q].events)
    BY <1>4, <1>5, <2>2, <2>3 DEF EventsInv
  <2>5. ASSUME NEW t \in Ticket, NEW old \in Status, NEW new \in Status
        PROVE  /\ IsFiniteSet(Waiting(t, old, new)')
               /\ Announced(outbox[t], old, new) + Cardinality(Waiting(t, old, new)')
                     <= Occurrences(history'[t].status, old, new)
    <3>1. /\ IsFiniteSet(Waiting(t, old, new))
          /\ Announced(outbox[t], old, new) + Cardinality(Waiting(t, old, new))
                <= Occurrences(history[t].status, old, new)
          /\ Cardinality(Waiting(t, old, new)) \in Nat
      BY FS_CardinalityType DEF EventsInv
    <3>2. Announced(outbox[t], old, new) \in Nat
      <4>1. outbox[t] \in Seq(Event) /\ StatusChange(old, new) \in Event
        BY DEF IInv, TypeOK, StatusChange, Event
      <4> QED BY <4>1, AnnouncedAfter
    <3>3. s \notin Waiting(t, old, new)
      BY <1>1 DEF Waiting
    <3>4. StatusChange(old, new) = StatusChange(from, to) <=> old = from /\ new = to
      <4> HIDE DEF from, to
      <4>1. /\ StatusChange(old, new).old = old /\ StatusChange(old, new).new = new
            /\ StatusChange(from, to).old = from /\ StatusChange(from, to).new = to
        BY DEF StatusChange
      <4> QED BY <4>1
    <3>5. /\ Occurrences(history[t].status, old, new) \in Nat
          /\ Occurrences(history'[t].status, old, new)
                = Occurrences(history[t].status, old, new)
                  + (IF t = u /\ from # to /\ old = from /\ new = to THEN 1 ELSE 0)
      BY <1>1, HistoryAfter
    <3>6. CASE t = u /\ old = from /\ new = to
      <4>1. Waiting(t, old, new)' = Waiting(t, old, new) \cup {s}
        BY <1>4, <1>5, <2>2, <2>3, <3>3, <3>6 DEF Waiting, StatusChange
      <4>2. /\ IsFiniteSet(Waiting(t, old, new)')
            /\ Cardinality(Waiting(t, old, new)') = Cardinality(Waiting(t, old, new)) + 1
        <5> HIDE DEF Waiting
        <5> QED BY <3>1, <3>3, <4>1, FS_AddElement
      <4> QED BY <1>7, <3>1, <3>2, <3>5, <3>6, <4>2
    <3>7. CASE ~(t = u /\ old = from /\ new = to)
      <4>1. Waiting(t, old, new)' = Waiting(t, old, new)
        BY <1>4, <1>5, <2>2, <2>3, <3>3, <3>4, <3>7 DEF Waiting, StatusChange
      <4> QED BY <3>1, <3>2, <3>5, <3>7, <4>1
    <3> QED BY <3>6, <3>7
  <2> QED BY <1>1, <2>4, <2>5 DEF EventsInv
<1> QED BY <1>6, <1>7

\* dispatch_event: what was owed is announced.
LEMMA NotifyEvents ==
    ASSUME IInv, EventsInv, NEW s \in Session, Notify(s)
    PROVE  EventsInv'
<1> DEFINE u == ses[s].ticket
           events == ses[s].events
           rest == Tail(events)
           x == IF rest = <<>> THEN Idle ELSE [ses[s] EXCEPT !.events = rest]
<1>1. /\ ses \in [Session -> SessionState] /\ ses[s] \in SessionState
      /\ ses' = [ses EXCEPT ![s] = x] /\ ses[s].pc = "notify" /\ UNCHANGED history
      /\ outbox' = [outbox EXCEPT ![u] = Append(outbox[u], Head(events))]
      /\ outbox \in [Ticket -> Seq(Event)]
      /\ u \in Ticket /\ events \in Seq(Event) /\ events # <<>> /\ Agenda(events)
  BY DEF IInv, TypeOK, SessionInv, SessionState, EventsInv, Notify, Become, Remaining
<1>2. /\ Head(events) = events[1] /\ 1 \in DOMAIN events /\ Head(events) \in Event
      /\ \A i \in DOMAIN rest : rest[i] = events[i + 1] /\ i + 1 \in DOMAIN events /\ i + 1 # 1
      /\ rest \in Seq(Event)
      /\ rest # <<>> => 1 \in DOMAIN rest
  BY <1>1
<1>3. \A i \in DOMAIN rest : Names(rest[i]) /\ rest[i].type # "status_changed"
  <2> HIDE DEF rest, events
  <2> QED BY <1>1, <1>2 DEF Agenda
<1>4. /\ \A q \in Session : q # s => ses'[q] = ses[q]
      /\ ses'[s] = x
  BY <1>1
<1>5. x.pc = "notify" => x.events = rest /\ rest # <<>>
  BY <1>1 DEF Idle, SessionState
<1> HIDE DEF x, rest, events
<1>6. \A q \in Session : ses'[q].pc = "notify" => Agenda(ses'[q].events)
  BY <1>3, <1>4, <1>5 DEF EventsInv, Agenda
<1>7. \A t \in Ticket : \A i \in DOMAIN outbox'[t] : Names(outbox'[t][i])
  <2> SUFFICES ASSUME NEW t \in Ticket, NEW i \in DOMAIN outbox'[t] PROVE Names(outbox'[t][i])
    OBVIOUS
  <2>1. CASE t = u
    <3>1. outbox'[t] = Append(outbox[t], Head(events))
      BY <1>1, <2>1
    <3>2. outbox'[t][i] = Head(events) \/ (i \in DOMAIN outbox[t] /\ outbox'[t][i] = outbox[t][i])
      BY <1>1, <1>2, <3>1
    <3> QED BY <1>1, <1>2, <3>2 DEF EventsInv, Agenda
  <2>2. CASE t # u
    BY <1>1, <2>2 DEF EventsInv
  <2> QED BY <2>1, <2>2
<1>8. ASSUME NEW t \in Ticket, NEW old \in Status, NEW new \in Status
      PROVE  /\ IsFiniteSet(Waiting(t, old, new)')
             /\ Announced(outbox'[t], old, new) + Cardinality(Waiting(t, old, new)')
                   <= Occurrences(history[t].status, old, new)
  <2> DEFINE e == StatusChange(old, new)
  <2>1. /\ IsFiniteSet(Waiting(t, old, new))
        /\ Announced(outbox[t], old, new) + Cardinality(Waiting(t, old, new))
              <= Occurrences(history[t].status, old, new)
        /\ Cardinality(Waiting(t, old, new)) \in Nat
    BY FS_CardinalityType DEF EventsInv
  <2>2. Occurrences(history[t].status, old, new) \in Nat
    <3>1. history[t].status \in Seq(Change(Status))
      BY DEF IInv, TypeOK, Log
    <3> QED BY <3>1, OccurrencesAfter
  <2>3. /\ Announced(outbox[t], old, new) \in Nat
        /\ Announced(Append(outbox[t], Head(events)), old, new)
              = Announced(outbox[t], old, new) + (IF Head(events) = e THEN 1 ELSE 0)
    BY <1>1, <1>2, AnnouncedAfter
  <2>4. e.type = "status_changed"
    BY DEF StatusChange
  <2>5. s \notin Waiting(t, old, new)'
    BY <1>3, <1>4, <1>5, <1>2, <2>4 DEF Waiting, StatusChange
  <2>6. s \in Waiting(t, old, new) <=> t = u /\ Head(events) = e
    BY <1>1, <1>2 DEF Waiting, events
  <2>7. Waiting(t, old, new)' = Waiting(t, old, new) \ {s}
    BY <1>4, <2>5 DEF Waiting, StatusChange
  <2>8. /\ IsFiniteSet(Waiting(t, old, new)')
        /\ Cardinality(Waiting(t, old, new)')
              = Cardinality(Waiting(t, old, new))
                - (IF t = u /\ Head(events) = e THEN 1 ELSE 0)
    <3> HIDE DEF Waiting, e
    <3> QED BY <2>1, <2>6, <2>7, FS_RemoveElement
  <2>9. CASE t = u
    BY <1>1, <2>1, <2>2, <2>3, <2>8, <2>9
  <2>10. CASE t # u
    BY <1>1, <2>1, <2>2, <2>3, <2>8, <2>10
  <2> QED BY <2>9, <2>10
<1> QED BY <1>1, <1>6, <1>7, <1>8 DEF EventsInv

\* A session that goes anywhere but to its events has nothing to report.
LEMMA Elsewhere ==
    ASSUME IInv, EventsInv, UNCHANGED outbox, NEW s \in Session, NEW x,
           ses' = [ses EXCEPT ![s] = x], x.pc # "notify",
           UNCHANGED history \/ (Holds(s) /\ WriteHistory(s))
    PROVE  EventsInv'
<1>1. ses'[s] = x /\ \A q \in Session : q # s => ses'[q] = ses[q]
  BY DEF IInv, TypeOK
<1> QED BY <1>1, NothingToReport

\* The actions that neither commit a PATCH nor dispatch.
LEMMA OtherEvents ==
    ASSUME IInv, EventsInv, NEW s \in Session,
           \/ PatchCheck(s) \/ Promote(s) \/ VipLoad(s) \/ SweepNext(s) \/ Decide(s)
           \/ SweepStart(s) \/ Crash(s)
           \/ \E t \in Ticket : CreateFromCatalog(s, t) \/ ApproveLoad(s, t) \/ PatchLoad(s, t)
    PROVE  EventsInv'
<1>1. \A t, approved, rest : Deciding(t, approved, rest).pc = "decide"
  BY DEF Deciding, Idle
<1>2. Idle.pc = "idle"
  BY DEF Idle
<1>3. CASE PatchCheck(s)
  <2>1. PICK x \in {Idle, [ses[s] EXCEPT !.pc = "patch"]} : ses' = [ses EXCEPT ![s] = x]
    BY <1>3 DEF PatchCheck, Become
  <2>2. x.pc # "notify"
    <3>1. ses[s] \in SessionState
      BY DEF IInv, TypeOK
    <3>2. [ses[s] EXCEPT !.pc = "patch"].pc = "patch"
      BY <3>1 DEF SessionState
    <3> QED BY <1>2, <2>1, <3>2
  <2> QED BY <1>3, <2>1, <2>2, Elsewhere DEF PatchCheck
<1>4. CASE Promote(s)
  <2>1. PICK x \in {Idle, [Idle EXCEPT !.pc = "vip", !.ticket = ses[s].ticket]} :
            ses' = [ses EXCEPT ![s] = x]
    BY <1>4 DEF Promote, Become
  <2>2. x.pc # "notify"
    <3>1. [Idle EXCEPT !.pc = "vip", !.ticket = ses[s].ticket].pc = "vip"
      BY DEF Idle
    <3> QED BY <1>2, <2>1, <3>1
  <2> QED BY <1>4, <2>1, <2>2, Elsewhere DEF Promote
<1>5. CASE VipLoad(s)
  <2> HIDE DEF Deciding
  <2>1. PICK x : ses' = [ses EXCEPT ![s] = x] /\ x.pc # "notify"
    BY <1>1, <1>2, <1>5 DEF VipLoad, Become
  <2> QED BY <1>5, <2>1, Elsewhere DEF VipLoad
<1>6. CASE SweepNext(s)
  <2>1. PICK x : ses' = [ses EXCEPT ![s] = x] /\ x.pc # "notify"
    BY <1>1, <1>2, <1>6 DEF SweepNext, Become
  <2> QED BY <1>6, <2>1, Elsewhere DEF SweepNext
<1>7. CASE SweepStart(s)
  <2>1. PICK x : ses' = [ses EXCEPT ![s] = x] /\ x.pc # "notify"
    BY <1>1, <1>7 DEF SweepStart, Become
  <2> QED BY <1>7, <2>1, Elsewhere DEF SweepStart
<1>8. CASE Decide(s)
  <2>1. PICK x \in {Idle, [Idle EXCEPT !.pc = "sweep", !.todo = ses[s].todo]} :
            ses' = [ses EXCEPT ![s] = x]
    BY <1>8 DEF Decide, Become
  <2>2. x.pc # "notify"
    <3>1. [Idle EXCEPT !.pc = "sweep", !.todo = ses[s].todo].pc = "sweep"
      BY DEF Idle
    <3> QED BY <1>2, <2>1, <3>1
  <2>3. Holds(s) /\ WriteHistory(s) /\ UNCHANGED outbox
    BY <1>8 DEF Decide, IInv, SessionInv
  <2> QED BY <2>1, <2>2, <2>3, Elsewhere
<1>9. CASE Crash(s)
  <2>1. ses' = [ses EXCEPT ![s] = Idle]
    BY <1>9 DEF Crash, Become
  <2> QED BY <1>2, <1>9, <2>1, Elsewhere DEF Crash
<1>10. ASSUME NEW t \in Ticket, CreateFromCatalog(s, t) PROVE EventsInv'
  <2>1. PICK opening \in Opening, item \in CatalogItem, vip \in BOOLEAN :
            ses' = [ses EXCEPT ![s] =
                [Idle EXCEPT !.pc = "promote", !.ticket = t, !.snap = NewRow(opening),
                             !.new = Promoted(NewRow(opening), item), !.vip = vip]]
    BY <1>10 DEF CreateFromCatalog, Become
  <2> DEFINE x == [Idle EXCEPT !.pc = "promote", !.ticket = t, !.snap = NewRow(opening),
                               !.new = Promoted(NewRow(opening), item), !.vip = vip]
  <2>2. x.pc # "notify" /\ ses' = [ses EXCEPT ![s] = x]
    BY <2>1 DEF Idle
  <2> HIDE DEF x
  <2> QED BY <1>10, <2>2, Elsewhere DEF CreateFromCatalog
<1>11. ASSUME NEW t \in Ticket, ApproveLoad(s, t) PROVE EventsInv'
  <2>1. PICK x : ses' = [ses EXCEPT ![s] = x] /\ x.pc # "notify"
    BY <1>1, <1>11 DEF ApproveLoad, Become
  <2> QED BY <1>11, <2>1, Elsewhere DEF ApproveLoad
<1>12. ASSUME NEW t \in Ticket, PatchLoad(s, t) PROVE EventsInv'
  <2>1. PICK p, role : ses' = [ses EXCEPT ![s] =
            [Idle EXCEPT !.pc = IF Assigns(p) THEN "check" ELSE "patch", !.ticket = t,
                         !.snap = db[t], !.new = PatchedRow(db[t], p), !.role = role]]
    BY <1>12 DEF PatchLoad, Become
  <2> DEFINE x == [Idle EXCEPT !.pc = IF Assigns(p) THEN "check" ELSE "patch", !.ticket = t,
                               !.snap = db[t], !.new = PatchedRow(db[t], p), !.role = role]
  <2>2. x.pc # "notify" /\ ses' = [ses EXCEPT ![s] = x]
    BY <2>1 DEF Idle
  <2> HIDE DEF x
  <2> QED BY <1>12, <2>2, Elsewhere DEF PatchLoad
<1> QED BY <1>3, <1>4, <1>5, <1>6, <1>7, <1>8, <1>9, <1>10, <1>11, <1>12

LEMMA NextEvents == IInv /\ EventsInv /\ [Next]_vars => EventsInv'
<1> SUFFICES ASSUME IInv, EventsInv, [Next]_vars PROVE EventsInv'
  OBVIOUS
<1>1. ASSUME UNCHANGED <<ses, outbox, history>> PROVE EventsInv'
  BY <1>1, NothingToReport
<1>2. ASSUME NEW s \in Session, Proceed(s) PROVE EventsInv'
  BY <1>2, PatchCommitEvents, NotifyEvents, OtherEvents DEF Proceed
<1>3. ASSUME NEW s \in Session, SweepStart(s) \/ Crash(s) PROVE EventsInv'
  BY <1>3, OtherEvents
<1>4. ASSUME NEW s \in Session, NEW t \in Ticket,
             CreateFromCatalog(s, t) \/ ApproveLoad(s, t) \/ PatchLoad(s, t)
      PROVE  EventsInv'
  BY <1>4, OtherEvents
<1>5. CASE \E t \in Ticket : CreateTicket(t) \/ DeadlinePasses(t)
  BY <1>1, <1>5 DEF CreateTicket, DeadlinePasses
<1>6. CASE \E team \in Team, technician \in Technician :
               AddMember(team, technician) \/ RemoveMember(team, technician)
  BY <1>1, <1>6 DEF AddMember, RemoveMember
<1>7. CASE UNCHANGED vars
  BY <1>1, <1>7 DEF vars
<1> QED BY <1>2, <1>3, <1>4, <1>5, <1>6, <1>7 DEF Next

LEMMA InitEvents == Init => EventsInv
<1> SUFFICES ASSUME Init PROVE EventsInv
  OBVIOUS
<1>1. \A s \in Session : ses[s].pc = "idle"
  BY DEF Init, Idle
<1>2. \A t \in Ticket : outbox[t] = <<>> /\ history[t].status = <<>>
  BY DEF Init, EmptyLog
<1>3. ASSUME NEW t \in Ticket, NEW old \in Status, NEW new \in Status
      PROVE  /\ IsFiniteSet(Waiting(t, old, new))
             /\ Announced(outbox[t], old, new) + Cardinality(Waiting(t, old, new))
                   <= Occurrences(history[t].status, old, new)
  <2>1. Waiting(t, old, new) = {}
    BY <1>1 DEF Waiting
  <2>2. Announced(outbox[t], old, new) = Cardinality({})
    <3>1. {i \in DOMAIN outbox[t] : outbox[t][i] = StatusChange(old, new)} = {}
      BY <1>2
    <3> QED BY <3>1 DEF Announced, StatusChange
  <2>3. Occurrences(history[t].status, old, new) = Cardinality({})
    <3>1. {i \in DOMAIN history[t].status :
              history[t].status[i].old = old /\ history[t].status[i].new = new} = {}
      BY <1>2
    <3> QED BY <3>1 DEF Occurrences
  <2> QED BY <2>1, <2>2, <2>3, FS_EmptySet
<1>4. \A t \in Ticket : DOMAIN outbox[t] = {}
  BY <1>2
<1> QED BY <1>1, <1>3, <1>4 DEF EventsInv

\* However sessions interleave and wherever they are lost between the commit and the
\* dispatch, a receiver never hears of a status change twice, nor of one that is not in
\* the history.
THEOREM EventsAlwaysCommitted == Spec => []EventsAreCommitted
<1>1. IInv /\ EventsInv => EventsAreCommitted
  <2> SUFFICES ASSUME IInv, EventsInv, NEW t \in Ticket, NEW i \in DOMAIN outbox[t],
                      outbox[t][i].type = "status_changed"
               PROVE  Announced(outbox[t], outbox[t][i].old, outbox[t][i].new)
                        <= Occurrences(history[t].status, outbox[t][i].old, outbox[t][i].new)
    BY DEF EventsAreCommitted
  <2> DEFINE old == outbox[t][i].old
             new == outbox[t][i].new
  <2>1. old \in Status /\ new \in Status
    BY DEF EventsInv, Names
  <2>2. outbox[t] \in Seq(Event) /\ history[t].status \in Seq(Change(Status))
    BY DEF IInv, TypeOK, Log
  <2> HIDE DEF old, new
  <2>3. /\ IsFiniteSet(Waiting(t, old, new))
        /\ Announced(outbox[t], old, new) + Cardinality(Waiting(t, old, new))
              <= Occurrences(history[t].status, old, new)
    BY <2>1 DEF EventsInv
  <2>4. Cardinality(Waiting(t, old, new)) \in Nat
    BY <2>3, FS_CardinalityType
  <2>5. /\ StatusChange(old, new) \in Event
        /\ Announced(outbox[t], old, new) \in Nat /\ Occurrences(history[t].status, old, new) \in Nat
    <3>1. StatusChange(old, new) \in Event
      BY <2>1 DEF StatusChange, Event
    <3> QED BY <2>1, <2>2, <3>1, AnnouncedAfter, OccurrencesAfter
  <2>6. Announced(outbox[t], old, new) <= Occurrences(history[t].status, old, new)
    BY <2>3, <2>4, <2>5
  <2> QED BY <2>6 DEF old, new
<1>2. Init => EventsInv
  BY InitEvents
<1>3. IInv /\ EventsInv /\ [Next]_vars => EventsInv'
  BY NextEvents
<1>4. Spec => []IInv
  BY InductiveInvariant
<1> QED BY <1>1, <1>2, <1>3, <1>4, PTL DEF Spec

--------------------------------------------------------------------------
(* Requests that are served one after the other *)

Loaded(s) == ses[s].pc \in {"check", "patch", "promote", "decide"}

\* What a session has loaded is what the table holds, and nothing is on record of a
\* ticket before its second commit.
Fresh ==
    /\ \A t \in Ticket : ~Exists(t) => history[t] = EmptyLog
    /\ \A s \in Session : Loaded(s) => ses[s].snap = db[ses[s].ticket]
    /\ \A s \in Session : ses[s].pc = "promote" => history[ses[s].ticket] = EmptyLog

Alone == \A s, q \in Session : s = q

--------------------------------------------------------------------------
(* The helpers of the tickets are those of the trail *)

LEMMA BlankLog == EmptyLog = Audit!Blank
BY DEF EmptyLog, Audit!Blank, Column

LEMMA TrackedType ==
    ASSUME NEW row \in Row
    PROVE  Tracked(row) \in Audit!Tracked /\ Tracked(row) # None
<1>1. Tracked(row) \in Audit!Tracked
  BY DEF Tracked, Row, Audit!Tracked, Column, Value
<1> QED BY <1>1, ConstantsAssumption DEF Audit!Tracked

LEMMA LogRowEntries ==
    ASSUME NEW log, NEW old \in Row, NEW new \in Row
    PROVE  LogRow(log, old, new) =
               [f \in Column |-> Audit!Entries(log[f], Tracked(old)[f], Tracked(new)[f])]
<1> DEFINE R == [f \in Column |-> Audit!Entries(log[f], Tracked(old)[f], Tracked(new)[f])]
<1>1. \A l, x, y : LogChange(l, x, y) = Audit!Entries(l, x, y)
  BY DEF LogChange, Audit!Entries
<1>2. /\ Tracked(old)["status"] = old.status /\ Tracked(new)["status"] = new.status
      /\ Tracked(old)["current_level"] = old.current_level
      /\ Tracked(new)["current_level"] = new.current_level
      /\ Tracked(old)["assigned_to"] = old.assigned_to
      /\ Tracked(new)["assigned_to"] = new.assigned_to
      /\ Tracked(old)["team_id"] = old.team_id /\ Tracked(new)["team_id"] = new.team_id
  BY DEF Tracked
<1>3. /\ R["status"] = LogChange(log["status"], old.status, new.status)
      /\ R["current_level"] =
            LogChange(log["current_level"], old.current_level, new.current_level)
      /\ R["assigned_to"] = LogChange(log["assigned_to"], old.assigned_to, new.assigned_to)
      /\ R["team_id"] = LogChange(log["team_id"], old.team_id, new.team_id)
  BY <1>1, <1>2 DEF Column
<1>4. R = [f \in Column |-> R[f]]
  OBVIOUS
<1> HIDE DEF R
<1>5. R = LogRow(log, old, new)
  BY <1>3, <1>4 DEF LogRow, Column
<1> QED BY <1>5 DEF R

\* Over the row it was made from, an UPDATE writes what the session has in memory.
LEMMA WritesNew ==
    ASSUME NEW old \in Row, NEW new \in Row
    PROVE  Updated(old, old, new) = new
BY DEF Updated, Row

\* One ticket gets a row, and with it these entries.
LEMMA RowBecomes ==
    ASSUME IInv, NEW t \in Ticket, NEW row \in Row, NEW l,
           db' = [db EXCEPT ![t] = row], history' = [history EXCEPT ![t] = l]
    PROVE  /\ Audit!Becomes(t, Tracked(row), l)
           /\ TrackedRows'[t] = Tracked(row)
<1>1. row # None /\ db \in [Ticket -> Row \cup {None}]
  BY ConstantsAssumption DEF IInv, TypeOK
<1>2. TrackedRows' = [TrackedRows EXCEPT ![t] = Tracked(row)]
  BY <1>1 DEF TrackedRows, Exists
<1> QED BY <1>2, TrackedType DEF Audit!Becomes, TrackedRows

TrailStep == Fresh' /\ [Audit!Next]_<<TrackedRows, history>>

\* A row is inserted, or corrected while nothing is on record of it.
LEMMA OpenStep ==
    ASSUME IInv, NEW t \in Ticket, NEW row \in Row, history[t] = EmptyLog,
           db' = [db EXCEPT ![t] = row], UNCHANGED history
    PROVE  Audit!Next
<1>1. history' = [history EXCEPT ![t] = EmptyLog]
  BY DEF IInv, TypeOK
<1>2. Audit!Becomes(t, TrackedRows'[t], Audit!Blank)
  BY <1>1, RowBecomes, BlankLog
<1>3. Audit!Open(t)
  BY <1>2, BlankLog DEF Audit!Open
<1> QED BY <1>3 DEF Audit!Next

\* The commit of a session that holds the row as it is in the table.
LEMMA CommitRecords ==
    ASSUME IInv, Fresh, NEW s \in Session, Loaded(s), WriteRow(s), WriteHistory(s)
    PROVE  Audit!Next
<1> DEFINE t == ses[s].ticket
           new == ses[s].new
<1>1. /\ t \in Ticket /\ new \in Row /\ db[t] # None /\ db[t] \in Row
      /\ ses[s].snap = db[t]
  BY DEF IInv, TypeOK, SessionInv, Holds, Loaded, Fresh, Exists
<1>2. /\ db' = [db EXCEPT ![t] = new]
      /\ history' = [history EXCEPT ![t] = LogRow(history[t], db[t], new)]
  BY <1>1, WritesNew DEF WriteRow, WriteHistory
<1> HIDE DEF t, new
<1>3. TrackedRows[t] = Tracked(db[t]) /\ TrackedRows[t] # None
  BY <1>1, TrackedType DEF TrackedRows, Exists
<1>4. /\ Audit!Becomes(t, Tracked(new), LogRow(history[t], db[t], new))
      /\ TrackedRows'[t] = Tracked(new)
  BY <1>1, <1>2, RowBecomes
<1>5. LogRow(history[t], db[t], new) =
          [f \in Column |-> Audit!Entries(history[t][f], TrackedRows[t][f], TrackedRows'[t][f])]
  <2>1. LogRow(history[t], db[t], new) =
            [f \in Column |-> Audit!Entries(history[t][f], Tracked(db[t])[f], Tracked(new)[f])]
    BY <1>1, LogRowEntries
  <2> QED BY <2>1, <1>3, <1>4
<1>6. Audit!Record(t)
  BY <1>3, <1>4, <1>5 DEF Audit!Record
<1> QED BY <1>1, <1>6 DEF Audit!Next

--------------------------------------------------------------------------
(* What is loaded stays fresh *)

LEMMA NothingLoaded ==
    ASSUME Alone, NEW s \in Session, ~Loaded(s)',
           \A t \in Ticket : ~Exists(t)' => history'[t] = EmptyLog
    PROVE  Fresh'
BY DEF Fresh, Alone, Loaded

\* A step that leaves the tables alone, after which the session has nothing loaded.
LEMMA Drops ==
    ASSUME IInv, Fresh, Alone, NEW s \in Session, NEW x, UNCHANGED <<db, history>>,
           ses' = [ses EXCEPT ![s] = x], x.pc \in {"idle", "vip", "sweep", "notify"}
    PROVE  TrailStep
<1>1. ses'[s] = x
  BY DEF IInv, TypeOK
<1>2. Fresh'
  BY <1>1, NothingLoaded DEF Fresh, Loaded, Exists
<1> QED BY <1>2 DEF TrailStep, TrackedRows, Exists

\* A step that leaves the tables alone and loads a row.
LEMMA Loads ==
    ASSUME IInv, Fresh, Alone, NEW s \in Session, NEW x, UNCHANGED <<db, history>>,
           ses' = [ses EXCEPT ![s] = x], x.pc \in {"check", "patch", "decide"},
           x.snap = db[x.ticket]
    PROVE  TrailStep
<1>1. ses'[s] = x
  BY DEF IInv, TypeOK
<1>2. Fresh'
  BY <1>1 DEF Fresh, Alone, Loaded, Exists
<1> QED BY <1>2 DEF TrailStep, TrackedRows, Exists

\* A step that does not move the session.
LEMMA Apart ==
    ASSUME IInv, Fresh, UNCHANGED <<db, history, ses>>
    PROVE  TrailStep
<1>1. Fresh'
  BY DEF Fresh, Loaded, Exists
<1> QED BY <1>1 DEF TrailStep, TrackedRows, Exists

\* The commits of approve_ticket and update_ticket.
LEMMA Commit ==
    ASSUME IInv, Fresh, Alone, NEW s \in Session, NEW x, Loaded(s), WriteRow(s), WriteHistory(s),
           ses' = [ses EXCEPT ![s] = x], x.pc \in {"idle", "vip", "sweep", "notify"}
    PROVE  TrailStep
<1>1. Audit!Next
  BY CommitRecords
<1>2. Holds(s) /\ ses'[s] = x
  BY DEF IInv, TypeOK, SessionInv, Loaded
<1>3. ASSUME NEW t \in Ticket, ~Exists(t)'
      PROVE  history'[t] = EmptyLog
  <2>1. Grows
    BY <1>2, CommitsRow
  <2>2. t # ses[s].ticket /\ ~Exists(t)
    BY <1>2, <1>3, <2>1 DEF Holds, Grows
  <2>3. history'[t] = history[t]
    BY <2>2 DEF WriteHistory, IInv, TypeOK
  <2> QED BY <2>2, <2>3 DEF Fresh
<1>4. Fresh'
  BY <1>2, <1>3, NothingLoaded DEF Loaded
<1> QED BY <1>1, <1>4 DEF TrailStep

--------------------------------------------------------------------------
(* Every action is a step of a trail *)

LEMMA CreateTicketTrail ==
    ASSUME IInv, Fresh, NEW t \in Ticket, CreateTicket(t)
    PROVE  TrailStep
<1>1. PICK opening \in Opening : db' = [db EXCEPT ![t] = NewRow(opening)]
  BY DEF CreateTicket
<1>2. /\ NewRow(opening) \in Row /\ ~Exists(t) /\ UNCHANGED <<history, ses>>
      /\ history[t] = EmptyLog
  BY NewRowType DEF CreateTicket, Fresh
<1>3. Audit!Next
  BY <1>1, <1>2, OpenStep
<1>4. \A u \in Ticket : u # t => db'[u] = db[u]
  BY <1>1 DEF IInv, TypeOK
<1>5. \A u \in Ticket : ~Exists(u)' => ~Exists(u)
  BY <1>2, <1>4 DEF Exists
<1>6. \A s \in Session : Loaded(s) => ses[s].ticket \in Ticket /\ Exists(ses[s].ticket)
  BY DEF IInv, SessionInv, Loaded, Holds
<1>7. Fresh'
  BY <1>2, <1>4, <1>5, <1>6 DEF Fresh, Loaded
<1> QED BY <1>3, <1>7 DEF TrailStep

LEMMA CreateFromCatalogTrail ==
    ASSUME IInv, Fresh, Alone, NEW s \in Session, NEW t \in Ticket, CreateFromCatalog(s, t)
    PROVE  TrailStep
<1>1. PICK opening \in Opening, item \in CatalogItem, vip \in BOOLEAN :
          /\ db' = [db EXCEPT ![t] = NewRow(opening)]
          /\ ses' = [ses EXCEPT ![s] = [Idle EXCEPT !.pc = "promote", !.ticket = t,
                                          !.snap = NewRow(opening),
                                          !.new = Promoted(NewRow(opening), item),
                                          !.vip = vip]]
  BY DEF CreateFromCatalog, Become
<1>2. /\ NewRow(opening) \in Row /\ ~Exists(t) /\ UNCHANGED history
      /\ history[t] = EmptyLog
  BY NewRowType DEF CreateFromCatalog, Fresh
<1>3. Audit!Next
  BY <1>1, <1>2, OpenStep
<1>4. /\ \A u \in Ticket : u # t => db'[u] = db[u]
      /\ db'[t] = NewRow(opening)
      /\ ses'[s].ticket = t /\ ses'[s].snap = NewRow(opening)
  BY <1>1 DEF IInv, TypeOK, Idle
<1>5. \A u \in Ticket : ~Exists(u)' => history'[u] = EmptyLog
  BY <1>2, <1>4 DEF Exists, Fresh
<1>6. Fresh'
  BY <1>2, <1>4, <1>5 DEF Fresh, Alone
<1> QED BY <1>3, <1>6 DEF TrailStep

LEMMA PromoteTrail ==
    ASSUME IInv, Fresh, Alone, NEW s \in Session, Promote(s)
    PROVE  TrailStep
<1> DEFINE t == ses[s].ticket
           new == ses[s].new
<1>1. PICK x \in {Idle, [Idle EXCEPT !.pc = "vip", !.ticket = ses[s].ticket]} :
          ses' = [ses EXCEPT ![s] = x]
  BY DEF Promote, Become
<1>2. Holds(s) /\ WriteRow(s) /\ UNCHANGED history
  BY DEF IInv, SessionInv, Promote
<1>3. /\ t \in Ticket /\ new \in Row /\ db[t] \in Row
      /\ ses[s].snap = db[t] /\ history[t] = EmptyLog
  BY <1>2 DEF IInv, TypeOK, Holds, Fresh, Loaded, Exists, Promote
<1>4. db' = [db EXCEPT ![t] = new]
  BY <1>2, <1>3, WritesNew DEF WriteRow
<1>5. Audit!Next
  BY <1>2, <1>3, <1>4, OpenStep
<1>6. ses'[s] = x /\ x.pc \in {"idle", "vip"}
  <2>1. Idle.pc = "idle" /\ [Idle EXCEPT !.pc = "vip", !.ticket = ses[s].ticket].pc = "vip"
    BY DEF Idle
  <2> QED BY <1>1, <2>1 DEF IInv, TypeOK
<1>7. Grows
  BY <1>2, CommitsRow
<1>8. \A u \in Ticket : ~Exists(u)' => history'[u] = EmptyLog
  BY <1>2, <1>7 DEF Fresh, Grows
<1>9. Fresh'
  BY <1>6, <1>8, NothingLoaded DEF Loaded
<1> QED BY <1>5, <1>9 DEF TrailStep

\* approve_ticket and its callers: the row is loaded, or there is nothing to decide.
LEMMA DecisionTrail ==
    ASSUME IInv, Fresh, Alone, NEW s \in Session,
           \/ VipLoad(s) \/ SweepStart(s) \/ SweepNext(s) \/ Decide(s)
           \/ \E t \in Ticket : ApproveLoad(s, t)
    PROVE  TrailStep
<1>1. ASSUME NEW t, NEW approved, NEW rest, UNCHANGED <<db, history>>,
             ses' = [ses EXCEPT ![s] = Deciding(t, approved, rest)]
      PROVE  TrailStep
  <2>1. /\ Deciding(t, approved, rest).pc = "decide"
        /\ Deciding(t, approved, rest).ticket = t
        /\ Deciding(t, approved, rest).snap = db[t]
    BY DEF Deciding, Idle
  <2> HIDE DEF Deciding
  <2> QED BY <1>1, <2>1, Loads
<1>2. ASSUME UNCHANGED <<db, history>>, ses' = [ses EXCEPT ![s] = Idle]
      PROVE  TrailStep
  BY <1>2, Drops DEF Idle
<1>3. CASE VipLoad(s)
  BY <1>1, <1>2, <1>3 DEF VipLoad, Become
<1>4. CASE SweepStart(s)
  BY <1>1, <1>4 DEF SweepStart, Become
<1>5. CASE SweepNext(s)
  BY <1>1, <1>2, <1>5 DEF SweepNext, Become
<1>6. CASE \E t \in Ticket : ApproveLoad(s, t)
  BY <1>1, <1>6 DEF ApproveLoad, Become
<1>7. CASE Decide(s)
  <2>1. PICK x \in {Idle, [Idle EXCEPT !.pc = "sweep", !.todo = ses[s].todo]} :
            ses' = [ses EXCEPT ![s] = x]
    BY <1>7 DEF Decide, Become
  <2>2. /\ Idle.pc = "idle"
        /\ [Idle EXCEPT !.pc = "sweep", !.todo = ses[s].todo].pc = "sweep"
    BY DEF Idle
  <2>3. Loaded(s) /\ WriteRow(s) /\ WriteHistory(s)
    BY <1>7 DEF Decide, Loaded
  <2> QED BY <2>1, <2>2, <2>3, Commit
<1> QED BY <1>3, <1>4, <1>5, <1>6, <1>7

\* update_ticket, the events included.
LEMMA PatchTrail ==
    ASSUME IInv, Fresh, Alone, NEW s \in Session,
           \/ PatchCheck(s) \/ PatchCommit(s) \/ Notify(s)
           \/ \E t \in Ticket : PatchLoad(s, t)
    PROVE  TrailStep
<1>1. ses[s] \in SessionState
  BY DEF IInv, TypeOK
<1>2. CASE \E t \in Ticket : PatchLoad(s, t)
  <2>1. PICK t \in Ticket : PatchLoad(s, t)
    BY <1>2
  <2>2. PICK p \in Patch, role \in Role :
            ses' = [ses EXCEPT ![s] = [Idle EXCEPT !.pc = IF Assigns(p) THEN "check" ELSE "patch",
                                         !.ticket = t, !.snap = db[t],
                                         !.new = PatchedRow(db[t], p), !.role = role]]
    BY <2>1 DEF PatchLoad, Become
  <2> DEFINE x == [Idle EXCEPT !.pc = IF Assigns(p) THEN "check" ELSE "patch",
                     !.ticket = t, !.snap = db[t], !.new = PatchedRow(db[t], p), !.role = role]
  <2>3. x.pc \in {"check", "patch"} /\ x.ticket = t /\ x.snap = db[t]
    BY DEF Idle
  <2>4. UNCHANGED <<db, history>> /\ ses' = [ses EXCEPT ![s] = x]
    BY <2>1, <2>2 DEF PatchLoad
  <2> HIDE DEF x
  <2> QED BY <2>3, <2>4, Loads
<1>3. CASE PatchCheck(s)
  <2>1. PICK x \in {Idle, [ses[s] EXCEPT !.pc = "patch"]} : ses' = [ses EXCEPT ![s] = x]
    BY <1>3 DEF PatchCheck, Become
  <2>2. UNCHANGED <<db, history>> /\ ses[s].snap = db[ses[s].ticket]
    BY <1>3 DEF PatchCheck, Fresh, Loaded
  <2>3. CASE x = Idle
    BY <2>1, <2>2, <2>3, Drops DEF Idle
  <2>4. CASE x = [ses[s] EXCEPT !.pc = "patch"]
    <3>1. x.pc = "patch" /\ x.snap = ses[s].snap /\ x.ticket = ses[s].ticket
      BY <1>1, <2>4 DEF SessionState
    <3> QED BY <2>1, <2>2, <3>1, Loads
  <2> QED BY <2>3, <2>4
<1>4. CASE PatchCommit(s)
  <2>1. PICK x, events :
            /\ ses' = [ses EXCEPT ![s] = x]
            /\ x \in {Idle, [Idle EXCEPT !.pc = "notify", !.ticket = ses[s].ticket,
                                         !.events = events]}
    BY <1>4 DEF PatchCommit, Become
  <2>2. /\ Idle.pc = "idle"
        /\ [Idle EXCEPT !.pc = "notify", !.ticket = ses[s].ticket, !.events = events].pc = "notify"
    BY DEF Idle
  <2>3. Loaded(s) /\ WriteRow(s) /\ WriteHistory(s)
    BY <1>4 DEF PatchCommit, Loaded
  <2> QED BY <2>1, <2>2, <2>3, Commit
<1>5. CASE Notify(s)
  <2>1. PICK x, rest : /\ ses' = [ses EXCEPT ![s] = x]
                       /\ x \in {Idle, [ses[s] EXCEPT !.events = rest]}
    BY <1>5 DEF Notify, Become
  <2>2. x.pc \in {"idle", "notify"} /\ UNCHANGED <<db, history>>
    BY <1>1, <1>5, <2>1 DEF Idle, Notify, SessionState
  <2> QED BY <2>1, <2>2, Drops
<1> QED BY <1>2, <1>3, <1>4, <1>5

LEMMA NextTrail ==
    ASSUME IInv, Fresh, Alone, [Next]_vars
    PROVE  TrailStep
<1>1. ASSUME NEW s \in Session, Proceed(s) \/ SweepStart(s)
      PROVE  TrailStep
  BY <1>1, PatchTrail, DecisionTrail, PromoteTrail DEF Proceed
<1>2. ASSUME NEW s \in Session, Crash(s)
      PROVE  TrailStep
  BY <1>2, Drops DEF Crash, Become, Idle
<1>3. ASSUME NEW s \in Session, NEW t \in Ticket,
             CreateFromCatalog(s, t) \/ ApproveLoad(s, t) \/ PatchLoad(s, t)
      PROVE  TrailStep
  BY <1>3, CreateFromCatalogTrail, PatchTrail, DecisionTrail
<1>4. ASSUME NEW t \in Ticket, CreateTicket(t) \/ DeadlinePasses(t)
      PROVE  TrailStep
  BY <1>4, CreateTicketTrail, Apart DEF DeadlinePasses
<1>5. ASSUME NEW team \in Team, NEW technician \in Technician,
             AddMember(team, technician) \/ RemoveMember(team, technician)
      PROVE  TrailStep
  BY <1>5, Apart DEF AddMember, RemoveMember
<1>6. CASE UNCHANGED vars
  BY <1>6, Apart DEF vars
<1> QED BY <1>1, <1>2, <1>3, <1>4, <1>5, <1>6 DEF Next

--------------------------------------------------------------------------
(* Theorem *)

\* With one request at a time the history is the audit trail of the tickets, whatever
\* requests there are and wherever they end: each change of a tracked column is one
\* history row, from the value it had to the value it gets.
THEOREM SerialHistoryIsTrail ==
    ASSUME Alone
    PROVE  Spec => KeepsAuditTrail
<1>1. Init => Fresh /\ Audit!Init
  <2> SUFFICES ASSUME Init PROVE Fresh /\ Audit!Init
    OBVIOUS
  <2>1. /\ \A t \in Ticket : ~Exists(t) /\ history[t] = EmptyLog
        /\ \A s \in Session : ses[s].pc = "idle"
    BY DEF Init, Exists, Idle
  <2>2. Fresh
    BY <2>1 DEF Fresh, Loaded
  <2>3. TrackedRows = [t \in Ticket |-> None]
    BY <2>1 DEF TrackedRows
  <2>4. history = [t \in Ticket |-> Audit!Blank]
    BY BlankLog DEF Init
  <2> QED BY <2>2, <2>3, <2>4 DEF Audit!Init
<1>2. IInv /\ Fresh /\ [Next]_vars => Fresh' /\ [Audit!Next]_<<TrackedRows, history>>
  BY NextTrail DEF TrailStep
<1>3. Spec => []IInv
  BY InductiveInvariant
<1> QED BY <1>1, <1>2, <1>3, PTL DEF Spec, KeepsAuditTrail, Audit!Spec

--------------------------------------------------------------------------
(* What the trail promises to whoever rebuilds a timeline from it *)

Entry == [old : Value, new : Value]

\* The entries l of a field link up, to its value v.
Linked(l, v) ==
    /\ \A i \in 2..Len(l) : l[i].old = l[i - 1].new
    /\ l # <<>> => v = l[Len(l)].new

\* A row that is not there has no entries.
TrailInv ==
    /\ TrackedRows \in [Ticket -> Audit!Tracked \cup {None}]
    /\ history \in [Ticket -> [Column -> Seq(Entry)]]
    /\ \A c \in Ticket : TrackedRows[c] = None => history[c] = Audit!Blank
    /\ Audit!Continuous

\* What update_ticket records continues the chain of a field.
LEMMA EntriesLink ==
    ASSUME NEW l \in Seq(Entry), NEW old \in Value, NEW new \in Value, Linked(l, old)
    PROVE  Audit!Entries(l, old, new) \in Seq(Entry) /\ Linked(Audit!Entries(l, old, new), new)
<1> DEFINE x == [old |-> old, new |-> new]
<1>1. CASE new = old
  BY <1>1 DEF Audit!Entries
<1>2. CASE new # old
  <2>1. x \in Entry
    BY DEF Entry
  <2>2. /\ Audit!Entries(l, old, new) = Append(l, x)
        /\ Append(l, x) \in Seq(Entry)
        /\ Len(Append(l, x)) = Len(l) + 1
        /\ Append(l, x)[Len(l) + 1] = x
        /\ \A i \in 1..Len(l) : Append(l, x)[i] = l[i]
    BY <1>2, <2>1 DEF Audit!Entries
  <2>3. ASSUME NEW i \in 2..(Len(l) + 1)
        PROVE  Append(l, x)[i].old = Append(l, x)[i - 1].new
    <3>1. CASE i <= Len(l)
      BY <3>1, <2>2 DEF Linked
    <3>2. CASE i = Len(l) + 1
      BY <3>2, <2>2 DEF Linked
    <3> QED BY <3>1, <3>2
  <2> QED BY <2>2, <2>3 DEF Linked
<1> QED BY <1>1, <1>2

\* A ticket whose new entries link up keeps the trail of all the others.
LEMMA BecomesKeeps ==
    ASSUME TrailInv, NEW c \in Ticket, NEW values, NEW entries \in [Column -> Seq(Entry)],
           Audit!Becomes(c, values, entries), \A f \in Column : Linked(entries[f], values[f])
    PROVE  TrailInv'
<1>1. /\ values \in Audit!Tracked /\ None \notin Audit!Tracked
      /\ TrackedRows' = [TrackedRows EXCEPT ![c] = values]
      /\ history' = [history EXCEPT ![c] = entries]
  BY ConstantsAssumption DEF Audit!Becomes, Audit!Tracked
<1>2. /\ TrackedRows' \in [Ticket -> Audit!Tracked \cup {None}]
      /\ history' \in [Ticket -> [Column -> Seq(Entry)]]
  BY <1>1 DEF TrailInv
<1>3. ASSUME NEW d \in Ticket
      PROVE  /\ TrackedRows'[d] = None => history'[d] = Audit!Blank
             /\ \A f \in Column : Linked(history'[d][f], TrackedRows'[d][f])
  <2>1. CASE d = c
    BY <1>1, <2>1 DEF TrailInv
  <2>2. CASE d # c
    BY <1>1, <2>2 DEF TrailInv, Audit!Continuous, Linked
  <2> QED BY <2>1, <2>2
<1> QED BY <1>2, <1>3 DEF TrailInv, Audit!Continuous, Linked

LEMMA OpenKeeps ==
    ASSUME TrailInv, NEW c \in Ticket, Audit!Open(c)
    PROVE  TrailInv'
<1>1. /\ Audit!Blank \in [Column -> Seq(Entry)]
      /\ \A f \in Column : Linked(Audit!Blank[f], TrackedRows'[c][f])
  BY DEF Audit!Blank, Linked
<1> QED BY <1>1, BecomesKeeps DEF Audit!Open

LEMMA RecordKeeps ==
    ASSUME TrailInv, NEW c \in Ticket, Audit!Record(c)
    PROVE  TrailInv'
<1> DEFINE entries == [f \in Column |->
               Audit!Entries(history[c][f], TrackedRows[c][f], TrackedRows'[c][f])]
<1>1. Audit!Becomes(c, TrackedRows'[c], entries) /\ TrackedRows[c] # None
  BY DEF Audit!Record
<1>2. TrackedRows[c] \in Audit!Tracked /\ TrackedRows'[c] \in Audit!Tracked
  BY <1>1 DEF Audit!Becomes, TrailInv
<1>3. ASSUME NEW f \in Column
      PROVE  entries[f] \in Seq(Entry) /\ Linked(entries[f], TrackedRows'[c][f])
  <2>1. history[c][f] \in Seq(Entry) /\ Linked(history[c][f], TrackedRows[c][f])
    BY DEF TrailInv, Audit!Continuous, Linked
  <2>2. TrackedRows[c][f] \in Value /\ TrackedRows'[c][f] \in Value
    BY <1>2 DEF Audit!Tracked
  <2> QED BY <2>1, <2>2, EntriesLink
<1>4. entries \in [Column -> Seq(Entry)]
  BY <1>3
<1> HIDE DEF entries
<1> QED BY <1>1, <1>3, <1>4, BecomesKeeps

\* Whoever keeps the audit trail has entries that link up from the first to the current
\* value, which is what _reconstruct_field_timeline takes for granted.
THEOREM TrailContinuous == Audit!Spec => []Audit!Continuous
<1>1. Audit!Init => TrailInv
  <2> SUFFICES ASSUME Audit!Init PROVE TrailInv
    OBVIOUS
  <2>1. Audit!Blank \in [Column -> Seq(Entry)] /\ \A f \in Column : Audit!Blank[f] = <<>>
    BY DEF Audit!Blank
  <2> QED BY <2>1 DEF Audit!Init, TrailInv, Audit!Continuous
<1>2. TrailInv /\ [Audit!Next]_<<TrackedRows, history>> => TrailInv'
  <2> SUFFICES ASSUME TrailInv, [Audit!Next]_<<TrackedRows, history>> PROVE TrailInv'
    OBVIOUS
  <2>1. CASE UNCHANGED <<TrackedRows, history>>
    BY <2>1 DEF TrailInv, Audit!Continuous
  <2>2. ASSUME NEW c \in Ticket, Audit!Open(c) \/ Audit!Record(c) PROVE TrailInv'
    BY <2>2, OpenKeeps, RecordKeeps
  <2> QED BY <2>1, <2>2 DEF Audit!Next
<1>3. TrailInv => Audit!Continuous
  BY DEF TrailInv
<1> QED BY <1>1, <1>2, <1>3, PTL DEF Audit!Spec

\* With one request at a time the timeline of a ticket has no gap: each entry starts from
\* the value the one before it set, and the last one holds what the row holds.
THEOREM SerialTimelineContinuous ==
    ASSUME Alone
    PROVE  Spec => []Audit!Continuous
<1>1. Spec => Audit!Spec
  BY SerialHistoryIsTrail DEF KeepsAuditTrail
<1> QED BY <1>1, TrailContinuous, PTL

--------------------------------------------------------------------------
(* What the guards promise while requests do not overlap *)

\* The technician of a row can do its level.
Fits(row) == row.assigned_to # None =>
    /\ TechLevel[row.assigned_to] \in Level
    /\ ORDEM_NIVEL[TechLevel[row.assigned_to]] >= ORDEM_NIVEL[row.current_level]

\* A row that needs approval is pending, or its history says that it no longer is.
Approved(row, log) ==
    row.catalog_item # None /\ row.catalog_item.requires_approval /\ row.status # Pending
        => \E i \in DOMAIN log : log[i].old = Pending

\* What a session is about to write, seen from the row it loaded.
Allowed(x) ==
    /\ x.pc = "promote" =>
          /\ x.new.assigned_to = None /\ x.new.current_level = x.snap.current_level
          /\ x.new.catalog_item.requires_approval => x.new.status = Pending
    /\ x.pc \in {"check", "patch", "decide"} =>
          Fits(x.new) /\ x.new.catalog_item = x.snap.catalog_item
    /\ x.pc \in {"check", "patch"} =>
          (ORDEM_NIVEL[x.new.current_level] < ORDEM_NIVEL[x.snap.current_level] => x.role = "admin")
    /\ x.pc = "decide" => x.snap.status = Pending /\ x.new.current_level = x.snap.current_level

SerialInv ==
    /\ \A t \in Ticket : Exists(t) => Fits(db[t]) /\ Approved(db[t], history[t].status)
    /\ \A s \in Session : Allowed(ses[s])

LEMMA LevelOrder ==
    ASSUME NEW l \in Level
    PROVE  ORDEM_NIVEL[l] \in Nat
BY DEF ORDEM_NIVEL, Level

\* A step that leaves the tables alone.
LEMMA SerialMoves ==
    ASSUME IInv, SerialInv, NEW s \in Session, NEW x, Allowed(x),
           ses' = [ses EXCEPT ![s] = x], UNCHANGED <<db, history>>
    PROVE  SerialInv'
<1>1. \A q \in Session : ses'[q] = IF q = s THEN x ELSE ses[q]
  BY DEF IInv, TypeOK
<1>2. \A q \in Session : Allowed(ses'[q])
  BY <1>1 DEF SerialInv
<1> QED BY <1>2 DEF SerialInv, Exists

LEMMA QuietAllowed ==
    ASSUME NEW x, x.pc \in {"idle", "vip", "sweep", "notify"}
    PROVE  Allowed(x)
BY DEF Allowed

\* Entries are only added, and leaving a status adds one from it.
LEMMA LogKeeps ==
    ASSUME NEW log \in Seq(Change(Status)), NEW old \in Status, NEW new \in Status
    PROVE  /\ (\E i \in DOMAIN log : log[i].old = Pending)
                => \E i \in DOMAIN LogChange(log, old, new) : LogChange(log, old, new)[i].old = Pending
           /\ old = Pending /\ new # Pending
                => \E i \in DOMAIN LogChange(log, old, new) : LogChange(log, old, new)[i].old = Pending
<1>1. CASE old = new
  BY <1>1 DEF LogChange
<1>2. CASE old # new
  <2>1. PICK e : e = [old |-> old, new |-> new]
    OBVIOUS
  <2>2. e \in Change(Status) /\ e.old = old
    BY <2>1 DEF Change
  <2>3. PICK m : m = Append(log, e)
    OBVIOUS
  <2>4. LogChange(log, old, new) = m
    BY <1>2, <2>1, <2>3 DEF LogChange
  <2>5. /\ Len(log) \in Nat /\ DOMAIN log = 1..Len(log) /\ DOMAIN m = 1..(Len(log) + 1)
        /\ m[Len(log) + 1] = e /\ \A i \in 1..Len(log) : m[i] = log[i]
    BY <2>2, <2>3
  <2>6. Len(log) + 1 \in DOMAIN m /\ \A i \in DOMAIN log : i \in DOMAIN m
    BY <2>5
  <2> QED BY <2>2, <2>4, <2>5, <2>6
<1> QED BY <1>1, <1>2

\* A commit over the row the session has loaded.
LEMMA SerialWrites ==
    ASSUME IInv, Fresh, SerialInv, NEW s \in Session, NEW x, Allowed(x),
           ses' = [ses EXCEPT ![s] = x], Loaded(s), WriteRow(s),
           \/ WriteHistory(s)
           \/ ses[s].pc = "promote" /\ UNCHANGED history
    PROVE  SerialInv'
<1>1. PICK t : t = ses[s].ticket
  OBVIOUS
<1>2. PICK new : new = ses[s].new
  OBVIOUS
<1>3. /\ t \in Ticket /\ new \in Row /\ Exists(t) /\ db[t] \in Row
      /\ ses[s].snap = db[t] /\ Allowed(ses[s])
  BY <1>1, <1>2 DEF IInv, TypeOK, SessionInv, Holds, Loaded, Fresh, Exists, SerialInv
<1>4. db' = [db EXCEPT ![t] = new]
  BY <1>1, <1>2, <1>3, WritesNew DEF WriteRow
<1>5. PICK log : log = LogChange(history[t].status, db[t].status, new.status)
  OBVIOUS
<1>6. /\ history'[t].status \in {history[t].status, log}
      /\ ses[s].pc # "promote" => history'[t].status = log
      /\ \A u \in Ticket : u # t => history'[u] = history[u]
  <2>1. CASE WriteHistory(s)
    <3>1. history' = [history EXCEPT ![t] = LogRow(history[t], db[t], new)]
      BY <1>1, <1>2, <1>3, <2>1 DEF WriteHistory
    <3>2. LogRow(history[t], db[t], new).status = log
      BY <1>5 DEF LogRow
    <3> QED BY <1>3, <3>1, <3>2 DEF IInv, TypeOK
  <2>2. CASE ses[s].pc = "promote" /\ UNCHANGED history
    BY <2>2
  <2> QED BY <2>1, <2>2
<1>7. Fits(new)
  BY <1>2, <1>3 DEF Allowed, Loaded, Fits
<1>8. Approved(new, history'[t].status)
  <2>1. CASE ses[s].pc = "promote"
    BY <1>2, <1>3, <2>1 DEF Allowed, Approved
  <2>2. CASE ses[s].pc # "promote"
    <3>1. SUFFICES ASSUME new.catalog_item # None, new.catalog_item.requires_approval,
                          new.status # Pending
                   PROVE  \E i \in DOMAIN log : log[i].old = Pending
      BY <1>6, <2>2 DEF Approved
    <3>2. new.catalog_item = db[t].catalog_item
      BY <1>2, <1>3, <2>2 DEF Allowed, Loaded
    <3>3. /\ history[t].status \in Seq(Change(Status))
          /\ db[t].status \in Status /\ new.status \in Status
      BY <1>3 DEF IInv, TypeOK, Log, Row
    <3>4. CASE db[t].status = Pending
      BY <1>5, <3>1, <3>3, <3>4, LogKeeps
    <3>5. CASE db[t].status # Pending
      <4>1. \E i \in DOMAIN history[t].status : history[t].status[i].old = Pending
        BY <1>3, <3>1, <3>2, <3>5 DEF SerialInv, Approved
      <4> QED BY <1>5, <3>3, <4>1, LogKeeps
    <3> QED BY <3>4, <3>5
  <2> QED BY <2>1, <2>2
<1>9. ASSUME NEW u \in Ticket, db'[u] # None
      PROVE  Fits(db'[u]) /\ Approved(db'[u], history'[u].status)
  <2>1. CASE u = t
    <3>1. db'[u] = new
      BY <1>4, <2>1 DEF IInv, TypeOK
    <3> QED BY <1>7, <1>8, <2>1, <3>1
  <2>2. CASE u # t
    <3>1. db'[u] = db[u] /\ history'[u] = history[u]
      BY <1>4, <1>6, <2>2 DEF IInv, TypeOK
    <3> QED BY <1>9, <3>1 DEF SerialInv, Exists
  <2> QED BY <2>1, <2>2
<1>10. \A q \in Session : ses'[q] = IF q = s THEN x ELSE ses[q]
  BY DEF IInv, TypeOK
<1>11. \A q \in Session : Allowed(ses'[q])
  BY <1>10 DEF SerialInv
<1> QED BY <1>9, <1>11 DEF SerialInv, Exists

\* A row that is inserted has neither technician nor item.
LEMMA SerialInserts ==
    ASSUME IInv, SerialInv, NEW t \in Ticket, NEW opening \in Opening,
           db' = [db EXCEPT ![t] = NewRow(opening)], UNCHANGED history,
           \A s \in Session : Allowed(ses'[s])
    PROVE  SerialInv'
<1>1. NewRow(opening).assigned_to = None /\ NewRow(opening).catalog_item = None
  BY DEF NewRow
<1>2. ASSUME NEW u \in Ticket, db'[u] # None
      PROVE  Fits(db'[u]) /\ Approved(db'[u], history'[u].status)
  <2>1. CASE u = t
    <3>1. db'[u] = NewRow(opening)
      BY <2>1 DEF IInv, TypeOK
    <3> QED BY <1>1, <3>1 DEF Fits, Approved
  <2>2. CASE u # t
    <3>1. db'[u] = db[u] /\ history'[u] = history[u]
      BY <2>2 DEF IInv, TypeOK
    <3> QED BY <1>2, <3>1 DEF SerialInv, Exists
  <2> QED BY <2>1, <2>2
<1> QED BY <1>2 DEF SerialInv, Exists

LEMMA SerialOpens ==
    ASSUME IInv, SerialInv, NEW t \in Ticket,
           CreateTicket(t) \/ \E s \in Session : CreateFromCatalog(s, t)
    PROVE  SerialInv'
<1>1. CASE CreateTicket(t)
  <2>1. PICK opening \in Opening : db' = [db EXCEPT ![t] = NewRow(opening)]
    BY <1>1 DEF CreateTicket
  <2>2. UNCHANGED <<history, ses>>
    BY <1>1 DEF CreateTicket
  <2>3. \A s \in Session : Allowed(ses'[s])
    BY <2>2 DEF SerialInv
  <2> QED BY <2>1, <2>2, <2>3, SerialInserts
<1>2. ASSUME NEW s \in Session, CreateFromCatalog(s, t)
      PROVE  SerialInv'
  <2>1. PICK opening \in Opening, item \in CatalogItem, vip \in BOOLEAN :
          /\ db' = [db EXCEPT ![t] = NewRow(opening)]
          /\ ses' = [ses EXCEPT ![s] = [Idle EXCEPT !.pc = "promote", !.ticket = t,
                                          !.snap = NewRow(opening),
                                          !.new = Promoted(NewRow(opening), item),
                                          !.vip = vip]]
    BY <1>2 DEF CreateFromCatalog, Become
  <2>2. PICK row : row = NewRow(opening)
    OBVIOUS
  <2>3. PICK new : new = Promoted(row, item)
    OBVIOUS
  <2>4. PICK x : x = [Idle EXCEPT !.pc = "promote", !.ticket = t, !.snap = row, !.new = new,
                                  !.vip = vip]
    OBVIOUS
  <2>5. x.pc = "promote" /\ x.snap = row /\ x.new = new
    BY <2>4 DEF Idle
  <2>6. row \in Row /\ row.assigned_to = None
    BY <2>2, NewRowType DEF NewRow
  <2>7. /\ new.assigned_to = None /\ new.current_level = row.current_level
        /\ new.catalog_item = item /\ item.requires_approval => new.status = Pending
    BY <2>3, <2>6 DEF Promoted, Row
  <2>8. Allowed(x)
    BY <2>3, <2>5, <2>6, <2>7 DEF Allowed, Promoted, Row
  <2>9. \A q \in Session : ses'[q] = IF q = s THEN x ELSE ses[q]
    BY <2>1, <2>2, <2>3, <2>4 DEF IInv, TypeOK
  <2>10. \A q \in Session : Allowed(ses'[q])
    BY <2>8, <2>9 DEF SerialInv
  <2>11. UNCHANGED history
    BY <1>2 DEF CreateFromCatalog
  <2> QED BY <2>1, <2>10, <2>11, SerialInserts
<1> QED BY <1>1, <1>2

\* A decision of a pending ticket changes neither its technician nor its level.
LEMMA DecidingAllowed ==
    ASSUME NEW t \in Ticket, NEW approved \in BOOLEAN, NEW rest, db[t] \in Row, Undecided(db[t]),
           Fits(db[t])
    PROVE  Allowed(Deciding(t, approved, rest))
<1>1. PICK new : new = Decided(db[t], approved)
  OBVIOUS
<1>2. /\ new.assigned_to = db[t].assigned_to /\ new.current_level = db[t].current_level
      /\ new.catalog_item = db[t].catalog_item
  BY <1>1 DEF Decided, Row
<1>3. PICK x : x = Deciding(t, approved, rest)
  OBVIOUS
<1>4. x.pc = "decide" /\ x.snap = db[t] /\ x.new = new
  BY <1>1, <1>3 DEF Deciding, Idle
<1> QED BY <1>2, <1>3, <1>4 DEF Allowed, Undecided, Fits

LEMMA SerialDecides ==
    ASSUME IInv, Fresh, SerialInv, NEW s \in Session,
           \/ VipLoad(s) \/ SweepStart(s) \/ SweepNext(s) \/ Decide(s)
           \/ \E t \in Ticket : ApproveLoad(s, t)
    PROVE  SerialInv'
<1>1. ASSUME NEW t \in Ticket, NEW approved \in BOOLEAN, NEW rest, Exists(t), Undecided(db[t]),
             UNCHANGED <<db, history>>, ses' = [ses EXCEPT ![s] = Deciding(t, approved, rest)]
      PROVE  SerialInv'
  <2>1. db[t] \in Row /\ Fits(db[t])
    BY <1>1 DEF IInv, TypeOK, Exists, SerialInv
  <2> QED BY <1>1, <2>1, DecidingAllowed, SerialMoves
<1>2. ASSUME UNCHANGED <<db, history>>, ses' = [ses EXCEPT ![s] = Idle]
      PROVE  SerialInv'
  <2>1. Allowed(Idle)
    BY QuietAllowed DEF Idle
  <2> QED BY <1>2, <2>1, SerialMoves
<1>3. \A t : AutoApproves(t) \in BOOLEAN
  BY DEF AutoApproves
<1>4. CASE VipLoad(s)
  <2>1. ses[s].ticket \in Ticket /\ Exists(ses[s].ticket) /\ TRUE \in BOOLEAN
    BY <1>4 DEF VipLoad, IInv, SessionInv
  <2> QED BY <1>1, <1>2, <1>4, <2>1 DEF VipLoad, Become
<1>5. CASE SweepStart(s)
  <2>1. \A t \in Due : t \in Ticket /\ Exists(t) /\ Undecided(db[t])
    BY DEF Due, Undecided
  <2> QED BY <1>1, <1>3, <1>5, <2>1 DEF SweepStart, Become
<1>6. CASE SweepNext(s)
  <2>1. \A t \in ses[s].todo : t \in Ticket /\ Exists(t)
    BY DEF IInv, TypeOK, SessionInv, SessionState
  <2> QED BY <1>1, <1>2, <1>3, <1>6, <2>1 DEF SweepNext, Become
<1>7. CASE \E t \in Ticket : ApproveLoad(s, t)
  BY <1>1, <1>7 DEF ApproveLoad, Become
<1>8. CASE Decide(s)
  <2>1. PICK x \in {Idle, [Idle EXCEPT !.pc = "sweep", !.todo = ses[s].todo]} :
            ses' = [ses EXCEPT ![s] = x]
    BY <1>8 DEF Decide, Become
  <2>2. x.pc \in {"idle", "sweep"}
    <3>1. Idle.pc = "idle" /\ [Idle EXCEPT !.pc = "sweep", !.todo = ses[s].todo].pc = "sweep"
      BY DEF Idle
    <3> QED BY <2>1, <3>1
  <2>3. Loaded(s) /\ WriteRow(s) /\ WriteHistory(s) /\ Allowed(x)
    BY <1>8, <2>2, QuietAllowed DEF Decide, Loaded
  <2> QED BY <2>1, <2>3, SerialWrites
<1> QED BY <1>4, <1>5, <1>6, <1>7, <1>8

LEMMA SerialPromotes ==
    ASSUME IInv, Fresh, SerialInv, NEW s \in Session, Promote(s)
    PROVE  SerialInv'
<1>1. PICK x \in {Idle, [Idle EXCEPT !.pc = "vip", !.ticket = ses[s].ticket]} :
          ses' = [ses EXCEPT ![s] = x]
  BY DEF Promote, Become
<1>2. x.pc \in {"idle", "vip"}
  <2>1. Idle.pc = "idle" /\ [Idle EXCEPT !.pc = "vip", !.ticket = ses[s].ticket].pc = "vip"
    BY DEF Idle
  <2> QED BY <1>1, <2>1
<1>3. Loaded(s) /\ WriteRow(s) /\ UNCHANGED history /\ ses[s].pc = "promote" /\ Allowed(x)
  BY <1>2, QuietAllowed DEF Promote, Loaded
<1> QED BY <1>1, <1>3, SerialWrites

\* The guards of update_ticket: the technician fits the level after the PATCH, and a level
\* that goes up takes the technician away.
LEMMA PatchAllowed ==
    ASSUME NEW row \in Row, NEW p \in Patch, NEW role, Fits(row),
           MayPatch(row, p, role), Assigns(p) => LevelFits(PatchedRow(row, p))
    PROVE  /\ Fits(PatchedRow(row, p))
           /\ PatchedRow(row, p).catalog_item = row.catalog_item
           /\ ORDEM_NIVEL[PatchedRow(row, p).current_level] < ORDEM_NIVEL[row.current_level]
                 => role = "admin"
<1>1. PICK new : new = PatchedRow(row, p)
  OBVIOUS
<1>2. /\ new.assigned_to = PatchedAssignee(row, p)
      /\ new.current_level = Given(p.current_level, row.current_level)
      /\ new.catalog_item = row.catalog_item
  BY <1>1 DEF PatchedRow
<1>3. new \in Row
  BY <1>1, PatchedRowType
<1>4. /\ new.current_level \in Level /\ row.current_level \in Level
      /\ ORDEM_NIVEL[new.current_level] \in Nat /\ ORDEM_NIVEL[row.current_level] \in Nat
  BY <1>3, LevelOrder DEF Row
<1>5. ORDEM_NIVEL[new.current_level] < ORDEM_NIVEL[row.current_level] => role = "admin"
  BY <1>2, <1>4 DEF MayPatch, Lowers, Given
<1>6. Fits(new)
  <2>1. CASE Assigns(p)
    <3>1. TechLevel[new.assigned_to] = new.current_level
      BY <1>1, <2>1 DEF LevelFits
    <3> QED BY <1>4, <3>1 DEF Fits
  <2>2. CASE p.assigned_to = Unset /\ ~Raises(row, p)
    <3>1. new.assigned_to = row.assigned_to
      BY <1>2, <2>2 DEF PatchedAssignee, Given
    <3>2. ORDEM_NIVEL[new.current_level] <= ORDEM_NIVEL[row.current_level]
      BY <1>2, <1>4, <2>2 DEF Raises, Given
    <3>3. ASSUME row.assigned_to # None
          PROVE  /\ TechLevel[row.assigned_to] \in Level
                 /\ ORDEM_NIVEL[TechLevel[row.assigned_to]] >= ORDEM_NIVEL[new.current_level]
      <4>1. /\ TechLevel[row.assigned_to] \in Level
            /\ ORDEM_NIVEL[TechLevel[row.assigned_to]] >= ORDEM_NIVEL[row.current_level]
        BY <3>3 DEF Fits
      <4> QED BY <1>4, <3>2, <4>1, LevelOrder
    <3> QED BY <3>1, <3>3 DEF Fits
  <2>3. CASE ~Assigns(p) /\ ~(p.assigned_to = Unset /\ ~Raises(row, p))
    BY <1>2, <2>3 DEF Assigns, PatchedAssignee, Given, Fits
  <2> QED BY <2>1, <2>2, <2>3
<1> QED BY <1>1, <1>2, <1>5, <1>6

LEMMA SerialPatches ==
    ASSUME IInv, Fresh, SerialInv, NEW s \in Session,
           \/ PatchCheck(s) \/ PatchCommit(s) \/ Notify(s)
           \/ \E t \in Ticket : PatchLoad(s, t)
    PROVE  SerialInv'
<1>1. ses[s] \in SessionState /\ Allowed(ses[s]) /\ Allowed(Idle)
  BY QuietAllowed DEF IInv, TypeOK, SerialInv, Idle
<1>2. ASSUME NEW t \in Ticket, PatchLoad(s, t)
      PROVE  SerialInv'
  <2>1. PICK p \in Patch, role \in Role :
          /\ MayPatch(db[t], p, role)
          /\ Assigns(p) => LevelFits(PatchedRow(db[t], p))
          /\ ses' = [ses EXCEPT ![s] = [Idle EXCEPT !.pc = IF Assigns(p) THEN "check" ELSE "patch",
                                         !.ticket = t, !.snap = db[t],
                                         !.new = PatchedRow(db[t], p), !.role = role]]
    BY <1>2 DEF PatchLoad, Become
  <2>2. PICK x : x = [Idle EXCEPT !.pc = IF Assigns(p) THEN "check" ELSE "patch",
                     !.ticket = t, !.snap = db[t], !.new = PatchedRow(db[t], p), !.role = role]
    OBVIOUS
  <2>3. /\ x.pc \in {"check", "patch"} /\ x.snap = db[t] /\ x.new = PatchedRow(db[t], p)
        /\ x.role = role
    BY <2>2 DEF Idle
  <2>4. db[t] \in Row /\ Fits(db[t]) /\ UNCHANGED <<db, history>>
    BY <1>2 DEF PatchLoad, IInv, TypeOK, Exists, SerialInv
  <2>5. Allowed(x)
    BY <2>1, <2>3, <2>4, PatchAllowed DEF Allowed
  <2> QED BY <2>1, <2>2, <2>4, <2>5, SerialMoves
<1>3. CASE PatchCheck(s)
  <2>1. PICK x \in {Idle, [ses[s] EXCEPT !.pc = "patch"]} : ses' = [ses EXCEPT ![s] = x]
    BY <1>3 DEF PatchCheck, Become
  <2>2. UNCHANGED <<db, history>> /\ ses[s].pc = "check"
    BY <1>3 DEF PatchCheck
  <2>3. Allowed(x)
    <3>1. CASE x = Idle
      BY <1>1, <3>1
    <3>2. CASE x = [ses[s] EXCEPT !.pc = "patch"]
      <4>1. x.pc = "patch" /\ x.snap = ses[s].snap /\ x.new = ses[s].new /\ x.role = ses[s].role
        BY <1>1, <3>2 DEF SessionState
      <4> QED BY <1>1, <2>2, <4>1 DEF Allowed
    <3> QED BY <2>1, <3>1, <3>2
  <2> QED BY <2>1, <2>2, <2>3, SerialMoves
<1>4. CASE PatchCommit(s)
  <2>1. PICK x, events :
            /\ ses' = [ses EXCEPT ![s] = x]
            /\ x \in {Idle, [Idle EXCEPT !.pc = "notify", !.ticket = ses[s].ticket,
                                         !.events = events]}
    BY <1>4 DEF PatchCommit, Become
  <2>2. x.pc \in {"idle", "notify"}
    <3>1. /\ Idle.pc = "idle"
          /\ [Idle EXCEPT !.pc = "notify", !.ticket = ses[s].ticket, !.events = events].pc = "notify"
      BY DEF Idle
    <3> QED BY <2>1, <3>1
  <2>3. Loaded(s) /\ WriteRow(s) /\ WriteHistory(s) /\ Allowed(x)
    BY <1>4, <2>2, QuietAllowed DEF PatchCommit, Loaded
  <2> QED BY <2>1, <2>3, SerialWrites
<1>5. CASE Notify(s)
  <2>1. PICK x, rest : /\ ses' = [ses EXCEPT ![s] = x]
                       /\ x \in {Idle, [ses[s] EXCEPT !.events = rest]}
    BY <1>5 DEF Notify, Become
  <2>2. x.pc \in {"idle", "notify"} /\ UNCHANGED <<db, history>>
    BY <1>1, <1>5, <2>1 DEF Idle, Notify, SessionState
  <2>3. Allowed(x)
    BY <2>2, QuietAllowed
  <2> QED BY <2>1, <2>2, <2>3, SerialMoves
<1> QED BY <1>2, <1>3, <1>4, <1>5

LEMMA NextSerial ==
    ASSUME IInv, Fresh, SerialInv, [Next]_vars
    PROVE  SerialInv'
<1>1. ASSUME NEW s \in Session, Proceed(s) \/ SweepStart(s)
      PROVE  SerialInv'
  BY <1>1, SerialPatches, SerialDecides, SerialPromotes DEF Proceed
<1>2. ASSUME NEW s \in Session, Crash(s)
      PROVE  SerialInv'
  <2>1. Allowed(Idle)
    BY QuietAllowed DEF Idle
  <2> QED BY <1>2, <2>1, SerialMoves DEF Crash, Become
<1>3. ASSUME NEW s \in Session, NEW t \in Ticket,
             CreateFromCatalog(s, t) \/ ApproveLoad(s, t) \/ PatchLoad(s, t)
      PROVE  SerialInv'
  BY <1>3, SerialOpens, SerialPatches, SerialDecides
<1>4. ASSUME UNCHANGED <<db, history, ses>>
      PROVE  SerialInv'
  BY <1>4 DEF SerialInv, Exists
<1>5. ASSUME NEW t \in Ticket, CreateTicket(t) \/ DeadlinePasses(t)
      PROVE  SerialInv'
  BY <1>4, <1>5, SerialOpens DEF DeadlinePasses
<1>6. ASSUME NEW team \in Team, NEW technician \in Technician,
             AddMember(team, technician) \/ RemoveMember(team, technician)
      PROVE  SerialInv'
  BY <1>4, <1>6 DEF AddMember, RemoveMember
<1>7. CASE UNCHANGED vars
  BY <1>4, <1>7 DEF vars
<1> QED BY <1>1, <1>2, <1>3, <1>5, <1>6, <1>7 DEF Next

--------------------------------------------------------------------------
(* Theorems *)

Serial == IInv /\ Fresh /\ SerialInv

\* Requests that do not overlap write what the guards allowed on the row in the table.
LEMMA SerialAlways ==
    ASSUME Alone
    PROVE  Spec => []Serial
<1>1. Init => Serial
  <2> SUFFICES ASSUME Init PROVE Serial
    OBVIOUS
  <2>1. /\ \A t \in Ticket : ~Exists(t) /\ history[t] = EmptyLog
        /\ \A s \in Session : ses[s].pc = "idle"
    BY DEF Init, Exists, Idle
  <2>2. Fresh
    BY <2>1 DEF Fresh, Loaded
  <2>3. SerialInv
    BY <2>1, QuietAllowed DEF SerialInv
  <2> QED BY <2>2, <2>3, InitInv DEF Serial
<1>2. Serial /\ [Next]_vars => Serial'
  BY NextInv, NextTrail, NextSerial DEF Serial, TrailStep
<1> QED BY <1>1, <1>2, PTL DEF Spec

\* With one request at a time, a ticket whose item requires approval leaves the pending
\* status only with a history row that says so, whoever decides: administrator, VIP or timeout.
THEOREM ApprovalNeverSilent ==
    ASSUME Alone
    PROVE  Spec => []NoSilentApproval
<1>1. Serial => NoSilentApproval
  BY DEF Serial, SerialInv, Approved, NoSilentApproval, IsPending
<1> QED BY <1>1, SerialAlways, PTL

\* With one request at a time, _validate_assignee and the escalation keep every ticket with a
\* technician who can do its level; levels that are lowered keep theirs.
THEOREM AssigneeAlwaysQualified ==
    ASSUME Alone
    PROVE  Spec => []AssigneeNotUnderqualified
<1>1. Serial => AssigneeNotUnderqualified
  BY DEF Serial, SerialInv, Fits, AssigneeNotUnderqualified
<1> QED BY <1>1, SerialAlways, PTL

--------------------------------------------------------------------------
(* What the guards promise however requests overlap *)

\* What a session is about to write, seen from the row it loaded.
Guarded(x) ==
    /\ x.pc = "promote" =>
          x.new.current_level = x.snap.current_level /\ x.new.status \in {x.snap.status, Pending}
    /\ x.pc \in {"check", "patch"} =>
          (Below(x.new.current_level, x.snap.current_level) => x.role = "admin")
    /\ x.pc = "decide" => x.snap.status = Pending /\ x.new.current_level = x.snap.current_level

\* The history of a ticket that is not pending ends with the status it has, if it holds any
\* change; and it does once a decision finds the ticket otherwise than it was loaded.
OnRecord ==
    /\ \A t \in Ticket : ~Exists(t) => history[t].status = <<>>
    /\ \A t \in Ticket : Exists(t) /\ ~IsPending(t) /\ history[t].status # <<>> =>
          history[t].status[Len(history[t].status)].new = db[t].status
    /\ \A s \in Session : ses[s].pc = "decide" /\ ~IsPending(ses[s].ticket) =>
          history[ses[s].ticket].status # <<>>

GuardInv == OnRecord /\ \A s \in Session : Guarded(ses[s])

LEMMA QuietGuarded ==
    ASSUME NEW x, x.pc \in {"idle", "vip", "sweep", "notify"}
    PROVE  Guarded(x) /\ x.pc # "decide"
BY DEF Guarded

\* A step that leaves the tables alone; a decision is loaded of a pending ticket.
LEMMA GuardMoves ==
    ASSUME IInv, GuardInv, NEW s \in Session, NEW x, Guarded(x),
           x.pc = "decide" => IsPending(x.ticket),
           ses' = [ses EXCEPT ![s] = x], UNCHANGED <<db, history>>
    PROVE  GuardInv'
<1>1. \A q \in Session : ses'[q] = IF q = s THEN x ELSE ses[q]
  BY DEF IInv, TypeOK
<1>2. \A q \in Session : Guarded(ses'[q])
  BY <1>1 DEF GuardInv
<1>3. \A q \in Session : ses'[q].pc = "decide" /\ ~IsPending(ses'[q].ticket) =>
          history[ses'[q].ticket].status # <<>>
  BY <1>1 DEF GuardInv, OnRecord
<1> QED BY <1>2, <1>3 DEF GuardInv, OnRecord, Exists, IsPending

\* The last entry after a change.
LEMMA LastChange ==
    ASSUME NEW log \in Seq(Change(Status)), NEW old \in Status, NEW new \in Status, NEW m,
           m = LogChange(log, old, new)
    PROVE  /\ old = new => m = log
           /\ old # new => m # <<>> /\ m[Len(m)].new = new
           /\ log # <<>> => m # <<>>
<1>1. CASE old = new
  BY <1>1 DEF LogChange
<1>2. CASE old # new
  <2>1. PICK e : e = [old |-> old, new |-> new]
    OBVIOUS
  <2>2. e \in Change(Status) /\ e.new = new
    BY <2>1 DEF Change
  <2>3. m = Append(log, e)
    BY <1>2, <2>1 DEF LogChange
  <2>4. Len(log) \in Nat /\ Len(m) = Len(log) + 1 /\ m[Len(m)] = e /\ m # <<>>
    BY <2>2, <2>3
  <2> QED BY <1>2, <2>2, <2>4
<1> QED BY <1>1, <1>2

\* A commit, whatever the table holds by now.
LEMMA GuardWrites ==
    ASSUME IInv, GuardInv, NEW s \in Session, NEW x, Guarded(x), x.pc # "decide",
           ses' = [ses EXCEPT ![s] = x], Loaded(s), WriteRow(s),
           \/ WriteHistory(s)
           \/ ses[s].pc = "promote" /\ UNCHANGED history
    PROVE  GuardInv'
<1>a. PICK t, snap, new : t = ses[s].ticket /\ snap = ses[s].snap /\ new = ses[s].new
  OBVIOUS
<1>1. /\ t \in Ticket /\ Exists(t) /\ db[t] \in Row /\ snap \in Row /\ new \in Row /\ None \notin Row
      /\ Guarded(ses[s])
  BY <1>a, ConstantsAssumption DEF IInv, TypeOK, SessionInv, Holds, Loaded, Exists, GuardInv
<1>b. PICK row, log, was : row = Updated(db[t], snap, new) /\ was = history[t].status
                           /\ log = LogChange(was, snap.status, new.status)
  OBVIOUS
<1>2. /\ row \in Row /\ row.status = IF new.status # snap.status THEN new.status ELSE db[t].status
      /\ snap.status \in Status /\ new.status \in Status /\ was \in Seq(Change(Status))
  <2>1. row \in Row
    BY <1>1, <1>b, UpdatedType
  <2>2. row.status = IF new.status # snap.status THEN new.status ELSE db[t].status
    BY <1>b DEF Updated
  <2>3. was \in Seq(Change(Status))
    BY <1>1, <1>b DEF IInv, TypeOK, Log
  <2> QED BY <1>1, <2>1, <2>2, <2>3 DEF Row
<1>3. db'[t] = row /\ \A u \in Ticket : u # t => db'[u] = db[u]
  BY <1>1, <1>a, <1>b DEF WriteRow, IInv, TypeOK
<1>4. /\ \A u \in Ticket : u # t => history'[u] = history[u]
      /\ IF ses[s].pc = "promote" /\ UNCHANGED history THEN history'[t].status = was
         ELSE history'[t].status = log
  <2>1. CASE ses[s].pc = "promote" /\ UNCHANGED history
    BY <1>b, <2>1
  <2>2. CASE WriteHistory(s) /\ ~(ses[s].pc = "promote" /\ UNCHANGED history)
    <3>1. history' = [history EXCEPT ![t] = LogRow(history[t], snap, new)]
      BY <1>a, <2>2 DEF WriteHistory
    <3>2. LogRow(history[t], snap, new).status = log
      BY <1>b DEF LogRow
    <3> QED BY <1>1, <2>2, <3>1, <3>2 DEF IInv, TypeOK
  <2> QED BY <2>1, <2>2
<1>5. /\ was # <<>> => history'[t].status # <<>>
      /\ \/ row.status = Pending
         \/ row.status = db[t].status /\ history'[t].status = was
         \/ history'[t].status # <<>> /\ history'[t].status[Len(history'[t].status)].new = row.status
  <2>1. CASE ses[s].pc = "promote" /\ UNCHANGED history
    <3>1. new.status \in {snap.status, Pending}
      BY <1>1, <1>a, <2>1 DEF Guarded
    <3> QED BY <1>2, <1>4, <2>1, <3>1
  <2>2. CASE ~(ses[s].pc = "promote" /\ UNCHANGED history)
    <3>1. history'[t].status = log
      BY <1>4, <2>2
    <3>2. /\ snap.status = new.status => log = was
          /\ snap.status # new.status => log # <<>> /\ log[Len(log)].new = new.status
          /\ was # <<>> => log # <<>>
      BY <1>2, <1>b, LastChange
    <3> QED BY <1>2, <3>1, <3>2
  <2> QED BY <2>1, <2>2
<1>6. row # None
  BY <1>1, <1>2
<1>7. \A q \in Session : ses'[q] = IF q = s THEN x ELSE ses[q]
  BY DEF IInv, TypeOK
<1>8. \A q \in Session : Guarded(ses'[q])
  BY <1>7 DEF GuardInv
<1>9. \A u \in Ticket : db'[u] = None => history'[u].status = <<>>
  BY <1>3, <1>4, <1>6 DEF GuardInv, OnRecord, Exists
<1>10. ASSUME NEW u \in Ticket, db'[u] # None, db'[u].status # Pending, history'[u].status # <<>>
       PROVE  history'[u].status[Len(history'[u].status)].new = db'[u].status
  <2>1. CASE u # t
    BY <1>10, <1>3, <1>4, <2>1 DEF GuardInv, OnRecord, Exists, IsPending
  <2>2. CASE u = t
    BY <1>10, <1>1, <1>3, <1>5, <1>b, <2>2 DEF GuardInv, OnRecord, Exists, IsPending
  <2> QED BY <2>1, <2>2
<1>11. ASSUME NEW q \in Session, ses'[q].pc = "decide", ~(db'[ses'[q].ticket] # None /\ db'[ses'[q].ticket].status = Pending)
       PROVE  history'[ses'[q].ticket].status # <<>>
  <2>1. q # s /\ ses'[q] = ses[q] /\ ses[q].pc = "decide"
    BY <1>11, <1>7
  <2>a. PICK u : u = ses[q].ticket
    OBVIOUS
  <2>2. u \in Ticket /\ Exists(u)
    BY <2>1, <2>a DEF IInv, SessionInv, Holds
  <2>3. ~IsPending(u) => history[u].status # <<>>
    BY <2>1, <2>a DEF GuardInv, OnRecord
  <2>4. CASE u # t
    BY <1>11, <1>3, <1>4, <2>1, <2>2, <2>3, <2>4, <2>a DEF IsPending, Exists
  <2>5. CASE u = t
    <3>1. row.status # Pending
      BY <1>11, <1>3, <1>6, <2>1, <2>5, <2>a
    <3> QED BY <1>1, <1>5, <1>b, <2>1, <2>3, <2>5, <2>a, <3>1 DEF IsPending
  <2> QED BY <2>4, <2>5
<1> QED BY <1>8, <1>9, <1>10, <1>11 DEF GuardInv, OnRecord, Exists, IsPending

\* An INSERT: the ticket is open and has no history.
LEMMA GuardInserts ==
    ASSUME IInv, GuardInv, NEW t \in Ticket, ~Exists(t), NEW opening \in Opening,
           db' = [db EXCEPT ![t] = NewRow(opening)], UNCHANGED history,
           \A q \in Session : /\ Guarded(ses'[q])
                              /\ ses'[q].pc = "decide" => ses'[q] = ses[q]
    PROVE  GuardInv'
<1>a. PICK row : row = NewRow(opening)
  OBVIOUS
<1>1. row \in Row /\ row # None /\ history[t].status = <<>>
  BY <1>a, NewRowType, ConstantsAssumption DEF GuardInv, OnRecord
<1>2. db'[t] = row /\ \A u \in Ticket : u # t => db'[u] = db[u]
  BY <1>a DEF IInv, TypeOK
<1>3. \A q \in Session : ses[q].pc = "decide" => ses[q].ticket \in Ticket /\ ses[q].ticket # t
  BY DEF IInv, SessionInv, Holds
<1>4. \A u \in Ticket : db'[u] = None => history[u].status = <<>>
  BY <1>1, <1>2 DEF GuardInv, OnRecord, Exists
<1>5. \A u \in Ticket : db'[u] # None /\ db'[u].status # Pending /\ history[u].status # <<>> =>
          history[u].status[Len(history[u].status)].new = db'[u].status
  BY <1>1, <1>2 DEF GuardInv, OnRecord, Exists, IsPending
<1>6. ASSUME NEW q \in Session, ses'[q].pc = "decide",
             ~(db'[ses'[q].ticket] # None /\ db'[ses'[q].ticket].status = Pending)
      PROVE  history[ses'[q].ticket].status # <<>>
  <2>1. ses'[q] = ses[q]
    BY <1>6
  <2>2. ses[q].ticket \in Ticket /\ ses[q].ticket # t
    BY <1>3, <1>6, <2>1
  <2> QED BY <1>2, <1>6, <2>1, <2>2 DEF GuardInv, OnRecord, IsPending, Exists
<1> QED BY <1>4, <1>5, <1>6 DEF GuardInv, OnRecord, Exists, IsPending

LEMMA GuardOpens ==
    ASSUME IInv, GuardInv, NEW t \in Ticket,
           CreateTicket(t) \/ \E s \in Session : CreateFromCatalog(s, t)
    PROVE  GuardInv'
<1>1. CASE CreateTicket(t)
  <2>1. PICK opening \in Opening : db' = [db EXCEPT ![t] = NewRow(opening)]
    BY <1>1 DEF CreateTicket
  <2>2. UNCHANGED <<history, ses>> /\ ~Exists(t)
    BY <1>1 DEF CreateTicket
  <2>3. \A q \in Session : Guarded(ses'[q]) /\ (ses'[q].pc = "decide" => ses'[q] = ses[q])
    BY <2>2 DEF GuardInv
  <2> QED BY <2>1, <2>2, <2>3, GuardInserts
<1>2. ASSUME NEW s \in Session, CreateFromCatalog(s, t)
      PROVE  GuardInv'
  <2>1. PICK opening \in Opening, item \in CatalogItem, vip \in BOOLEAN :
          /\ db' = [db EXCEPT ![t] = NewRow(opening)]
          /\ ses' = [ses EXCEPT ![s] = [Idle EXCEPT !.pc = "promote", !.ticket = t,
                                          !.snap = NewRow(opening),
                                          !.new = Promoted(NewRow(opening), item),
                                          !.vip = vip]]
    BY <1>2 DEF CreateFromCatalog, Become
  <2>2. PICK row, new : row = NewRow(opening) /\ new = Promoted(row, item)
    OBVIOUS
  <2>3. PICK x : x = [Idle EXCEPT !.pc = "promote", !.ticket = t, !.snap = row, !.new = new,
                                  !.vip = vip]
    OBVIOUS
  <2>4. x.pc = "promote" /\ x.snap = row /\ x.new = new
    BY <2>3 DEF Idle
  <2>5. row \in Row
    BY <2>2, NewRowType
  <2>6. new.current_level = row.current_level /\ new.status \in {row.status, Pending}
    BY <2>2, <2>5 DEF Promoted, Row
  <2>7. Guarded(x)
    BY <2>4, <2>6 DEF Guarded
  <2>8. \A q \in Session : ses'[q] = IF q = s THEN x ELSE ses[q]
    BY <2>1, <2>2, <2>3 DEF IInv, TypeOK
  <2>9. \A q \in Session : Guarded(ses'[q]) /\ (ses'[q].pc = "decide" => ses'[q] = ses[q])
    BY <2>4, <2>7, <2>8 DEF GuardInv
  <2>10. UNCHANGED history /\ ~Exists(t)
    BY <1>2 DEF CreateFromCatalog
  <2> QED BY <2>1, <2>9, <2>10, GuardInserts
<1> QED BY <1>1, <1>2

LEMMA DecidingGuarded ==
    ASSUME NEW t \in Ticket, NEW approved \in BOOLEAN, NEW rest, Exists(t), db[t] \in Row, Undecided(db[t]),
           NEW x, x = Deciding(t, approved, rest)
    PROVE  Guarded(x) /\ IsPending(x.ticket)
<1>1. PICK new : new = Decided(db[t], approved)
  OBVIOUS
<1>2. new.current_level = db[t].current_level
  BY <1>1 DEF Decided, Row
<1>3. x.pc = "decide" /\ x.snap = db[t] /\ x.new = new /\ x.ticket = t
  BY <1>1 DEF Deciding, Idle
<1> QED BY <1>2, <1>3 DEF Guarded, Undecided, IsPending

LEMMA GuardDecides ==
    ASSUME IInv, GuardInv, NEW s \in Session,
           \/ VipLoad(s) \/ SweepStart(s) \/ SweepNext(s) \/ Decide(s)
           \/ \E t \in Ticket : ApproveLoad(s, t)
    PROVE  GuardInv'
<1>1. ASSUME NEW t \in Ticket, Exists(t), Undecided(db[t]), NEW approved \in BOOLEAN, NEW rest,
             UNCHANGED <<db, history>>, ses' = [ses EXCEPT ![s] = Deciding(t, approved, rest)]
      PROVE  GuardInv'
  <2>a. PICK x : x = Deciding(t, approved, rest)
    OBVIOUS
  <2>1. db[t] \in Row
    BY <1>1 DEF IInv, TypeOK, Exists
  <2>2. Guarded(x) /\ IsPending(x.ticket)
    BY <1>1, <2>1, <2>a, DecidingGuarded
  <2> QED BY <1>1, <2>2, <2>a, GuardMoves
<1>2. ASSUME UNCHANGED <<db, history>>, ses' = [ses EXCEPT ![s] = Idle]
      PROVE  GuardInv'
  <2>1. Guarded(Idle) /\ Idle.pc # "decide"
    BY QuietGuarded DEF Idle
  <2> QED BY <1>2, <2>1, GuardMoves
<1>3. \A t : AutoApproves(t) \in BOOLEAN
  BY DEF AutoApproves
<1>4. CASE VipLoad(s)
  <2>1. ses[s].ticket \in Ticket /\ Exists(ses[s].ticket) /\ TRUE \in BOOLEAN
    BY <1>4 DEF VipLoad, IInv, SessionInv
  <2> QED BY <1>1, <1>2, <1>4, <2>1 DEF VipLoad, Become
<1>5. CASE SweepStart(s)
  <2>1. \A t \in Due : t \in Ticket /\ Exists(t) /\ Undecided(db[t])
    BY DEF Due, Undecided
  <2> QED BY <1>1, <1>3, <1>5, <2>1 DEF SweepStart, Become
<1>6. CASE SweepNext(s)
  <2>1. \A t \in ses[s].todo : t \in Ticket /\ Exists(t)
    BY DEF IInv, TypeOK, SessionInv, SessionState
  <2> QED BY <1>1, <1>2, <1>3, <1>6, <2>1 DEF SweepNext, Become
<1>7. CASE \E t \in Ticket : ApproveLoad(s, t)
  BY <1>1, <1>7 DEF ApproveLoad, Become
<1>8. CASE Decide(s)
  <2>1. PICK x \in {Idle, [Idle EXCEPT !.pc = "sweep", !.todo = ses[s].todo]} :
            ses' = [ses EXCEPT ![s] = x]
    BY <1>8 DEF Decide, Become
  <2>2. x.pc \in {"idle", "sweep"}
    <3>1. Idle.pc = "idle" /\ [Idle EXCEPT !.pc = "sweep", !.todo = ses[s].todo].pc = "sweep"
      BY DEF Idle
    <3> QED BY <2>1, <3>1
  <2>3. Loaded(s) /\ WriteRow(s) /\ WriteHistory(s) /\ Guarded(x) /\ x.pc # "decide"
    BY <1>8, <2>2, QuietGuarded DEF Decide, Loaded
  <2> QED BY <2>1, <2>3, GuardWrites
<1> QED BY <1>4, <1>5, <1>6, <1>7, <1>8

LEMMA GuardPromotes ==
    ASSUME IInv, GuardInv, NEW s \in Session, Promote(s)
    PROVE  GuardInv'
<1>1. PICK x \in {Idle, [Idle EXCEPT !.pc = "vip", !.ticket = ses[s].ticket]} :
          ses' = [ses EXCEPT ![s] = x]
  BY DEF Promote, Become
<1>2. x.pc \in {"idle", "vip"}
  <2>1. Idle.pc = "idle" /\ [Idle EXCEPT !.pc = "vip", !.ticket = ses[s].ticket].pc = "vip"
    BY DEF Idle
  <2> QED BY <1>1, <2>1
<1>3. /\ Loaded(s) /\ WriteRow(s) /\ UNCHANGED history /\ ses[s].pc = "promote"
      /\ Guarded(x) /\ x.pc # "decide"
  BY <1>2, QuietGuarded DEF Promote, Loaded
<1> QED BY <1>1, <1>3, GuardWrites

\* ForbiddenLevelDowngradeError keeps a technician from going below the level he has read.
LEMMA LoweredByAdmin ==
    ASSUME NEW row \in Row, NEW p \in Patch, NEW role, MayPatch(row, p, role)
    PROVE  Below(PatchedRow(row, p).current_level, row.current_level) => role = "admin"
<1>1. PICK new : new = PatchedRow(row, p)
  OBVIOUS
<1>2. new.current_level = Given(p.current_level, row.current_level)
  BY <1>1 DEF PatchedRow
<1>3. new \in Row
  BY <1>1, PatchedRowType
<1>4. ORDEM_NIVEL[new.current_level] \in Nat /\ ORDEM_NIVEL[row.current_level] \in Nat
  BY <1>3, LevelOrder DEF Row
<1> QED BY <1>1, <1>2, <1>4 DEF MayPatch, Lowers, Given, Below

LEMMA GuardPatches ==
    ASSUME IInv, GuardInv, NEW s \in Session,
           \/ PatchCheck(s) \/ PatchCommit(s) \/ Notify(s)
           \/ \E t \in Ticket : PatchLoad(s, t)
    PROVE  GuardInv'
<1>1. ses[s] \in SessionState /\ Guarded(ses[s]) /\ Guarded(Idle) /\ Idle.pc # "decide"
  BY QuietGuarded DEF IInv, TypeOK, GuardInv, Idle
<1>2. ASSUME NEW t \in Ticket, PatchLoad(s, t)
      PROVE  GuardInv'
  <2>1. PICK p \in Patch, role \in Role :
          /\ MayPatch(db[t], p, role)
          /\ ses' = [ses EXCEPT ![s] = [Idle EXCEPT !.pc = IF Assigns(p) THEN "check" ELSE "patch",
                                         !.ticket = t, !.snap = db[t],
                                         !.new = PatchedRow(db[t], p), !.role = role]]
    BY <1>2 DEF PatchLoad, Become
  <2>2. PICK x : x = [Idle EXCEPT !.pc = IF Assigns(p) THEN "check" ELSE "patch",
                     !.ticket = t, !.snap = db[t], !.new = PatchedRow(db[t], p), !.role = role]
    OBVIOUS
  <2>3. /\ x.pc \in {"check", "patch"} /\ x.snap = db[t] /\ x.new = PatchedRow(db[t], p)
        /\ x.role = role
    BY <2>2 DEF Idle
  <2>4. db[t] \in Row /\ UNCHANGED <<db, history>>
    BY <1>2 DEF PatchLoad, IInv, TypeOK, Exists
  <2>5. Guarded(x) /\ x.pc # "decide"
    BY <2>1, <2>3, <2>4, LoweredByAdmin DEF Guarded
  <2> QED BY <2>1, <2>2, <2>4, <2>5, GuardMoves
<1>3. CASE PatchCheck(s)
  <2>1. PICK x \in {Idle, [ses[s] EXCEPT !.pc = "patch"]} : ses' = [ses EXCEPT ![s] = x]
    BY <1>3 DEF PatchCheck, Become
  <2>2. UNCHANGED <<db, history>> /\ ses[s].pc = "check"
    BY <1>3 DEF PatchCheck
  <2>3. Guarded(x) /\ x.pc # "decide"
    <3>1. CASE x = Idle
      BY <1>1, <3>1
    <3>2. CASE x = [ses[s] EXCEPT !.pc = "patch"]
      <4>1. x.pc = "patch" /\ x.snap = ses[s].snap /\ x.new = ses[s].new /\ x.role = ses[s].role
        BY <1>1, <3>2 DEF SessionState
      <4> QED BY <1>1, <2>2, <4>1 DEF Guarded
    <3> QED BY <2>1, <3>1, <3>2
  <2> QED BY <2>1, <2>2, <2>3, GuardMoves
<1>4. CASE PatchCommit(s)
  <2>1. PICK x, events :
            /\ ses' = [ses EXCEPT ![s] = x]
            /\ x \in {Idle, [Idle EXCEPT !.pc = "notify", !.ticket = ses[s].ticket,
                                         !.events = events]}
    BY <1>4 DEF PatchCommit, Become
  <2>2. x.pc \in {"idle", "notify"}
    <3>1. /\ Idle.pc = "idle"
          /\ [Idle EXCEPT !.pc = "notify", !.ticket = ses[s].ticket, !.events = events].pc = "notify"
      BY DEF Idle
    <3> QED BY <2>1, <3>1
  <2>3. Loaded(s) /\ WriteRow(s) /\ WriteHistory(s) /\ Guarded(x) /\ x.pc # "decide"
    BY <1>4, <2>2, QuietGuarded DEF PatchCommit, Loaded
  <2> QED BY <2>1, <2>3, GuardWrites
<1>5. CASE Notify(s)
  <2>1. PICK x, rest : /\ ses' = [ses EXCEPT ![s] = x]
                       /\ x \in {Idle, [ses[s] EXCEPT !.events = rest]}
    BY <1>5 DEF Notify, Become
  <2>2. x.pc \in {"idle", "notify"} /\ UNCHANGED <<db, history>>
    BY <1>1, <1>5, <2>1 DEF Idle, Notify, SessionState
  <2>3. Guarded(x) /\ x.pc # "decide"
    BY <2>2, QuietGuarded
  <2> QED BY <2>1, <2>2, <2>3, GuardMoves
<1> QED BY <1>2, <1>3, <1>4, <1>5

LEMMA NextGuard ==
    ASSUME IInv, GuardInv, [Next]_vars
    PROVE  GuardInv'
<1>1. ASSUME NEW s \in Session, Proceed(s) \/ SweepStart(s)
      PROVE  GuardInv'
  BY <1>1, GuardPatches, GuardDecides, GuardPromotes DEF Proceed
<1>2. ASSUME NEW s \in Session, Crash(s)
      PROVE  GuardInv'
  <2>1. Guarded(Idle) /\ Idle.pc # "decide"
    BY QuietGuarded DEF Idle
  <2> QED BY <1>2, <2>1, GuardMoves DEF Crash, Become
<1>3. ASSUME NEW s \in Session, NEW t \in Ticket,
             CreateFromCatalog(s, t) \/ ApproveLoad(s, t) \/ PatchLoad(s, t)
      PROVE  GuardInv'
  BY <1>3, GuardOpens, GuardPatches, GuardDecides
<1>4. ASSUME UNCHANGED <<db, history, ses>>
      PROVE  GuardInv'
  BY <1>4 DEF GuardInv, OnRecord, Exists, IsPending
<1>5. ASSUME NEW t \in Ticket, CreateTicket(t) \/ DeadlinePasses(t)
      PROVE  GuardInv'
  BY <1>4, <1>5, GuardOpens DEF DeadlinePasses
<1>6. ASSUME NEW team \in Team, NEW technician \in Technician,
             AddMember(team, technician) \/ RemoveMember(team, technician)
      PROVE  GuardInv'
  BY <1>4, <1>6 DEF AddMember, RemoveMember
<1>7. CASE UNCHANGED vars
  BY <1>4, <1>7 DEF vars
<1> QED BY <1>1, <1>2, <1>3, <1>5, <1>6, <1>7 DEF Next

Watched == IInv /\ GuardInv

LEMMA GuardAlways == Spec => []Watched
<1>1. Init => Watched
  <2> SUFFICES ASSUME Init PROVE Watched
    OBVIOUS
  <2>1. /\ \A t \in Ticket : ~Exists(t) /\ history[t].status = <<>>
        /\ \A s \in Session : ses[s].pc = "idle"
    BY DEF Init, Exists, Idle, EmptyLog
  <2>2. GuardInv
    BY <2>1, QuietGuarded DEF GuardInv, OnRecord
  <2> QED BY <2>2, InitInv DEF Watched
<1>2. Watched /\ [Next]_vars => Watched'
  BY NextInv, NextGuard DEF Watched
<1> QED BY <1>1, <1>2, PTL DEF Spec

\* However approvals, timeouts and PATCHes overlap: a decision is of a ticket that was pending
\* when approve_ticket loaded it, and if somebody has taken it out of that status before the
\* commit, the history already ends with the change that the decision goes over.
THEOREM DecisionsAreOfPending == Spec => DecidesAwaiting
<1>1. Watched /\ [Next]_vars =>
        [\A s \in Session : Commits(s, "decide") =>
           LET t == ses[s].ticket
               log == history[t].status
           IN  \/ IsPending(t)
               \/ /\ ses[s].snap.status = Pending
                  /\ log # <<>> /\ log[Len(log)].new = db[t].status]_vars
  <2>1. ASSUME Watched, NEW s \in Session, ses[s].pc = "decide"
        PROVE  LET t == ses[s].ticket
                   log == history[t].status
               IN  \/ IsPending(t)
                   \/ /\ ses[s].snap.status = Pending
                      /\ log # <<>> /\ log[Len(log)].new = db[t].status
    <3>1. Guarded(ses[s]) /\ OnRecord /\ ses[s].ticket \in Ticket /\ Exists(ses[s].ticket)
      BY <2>1 DEF Watched, GuardInv, IInv, SessionInv, Holds
    <3> QED BY <2>1, <3>1 DEF Guarded, OnRecord
  <2> QED BY <2>1 DEF Commits
<1> QED BY <1>1, GuardAlways, PTL DEF Spec, DecidesAwaiting

\* However PATCHes overlap: the level of a ticket goes down by an administrator's hand, or by
\* a technician's who raises the level he has read while somebody has raised it further; no
\* technician takes a ticket below, or down to, the level he has read.
THEOREM AdminsDowngrade == Spec => OnlyAdminDowngrades
<1> DEFINE Rightly(t) ==
      \E s \in Session :
          /\ Commits(s, "patch") /\ ses[s].ticket = t
          /\ ses[s].role = "admin" \/ Below(ses[s].snap.current_level, db'[t].current_level)
<1>1. ASSUME Watched, [Next]_vars, NEW t \in Ticket, Exists(t),
             Below(db'[t].current_level, db[t].current_level)
      PROVE  Rightly(t)
  <2>1. IInv /\ GuardInv /\ db[t] \in Row
    BY <1>1 DEF Watched, IInv, TypeOK, Exists
  <2>2. ORDEM_NIVEL[db[t].current_level] \in Nat
    BY <2>1, LevelOrder DEF Row
  <2>3. db'[t].current_level # db[t].current_level
    BY <1>1, <2>2 DEF Below
  <2>4. ASSUME NEW s \in Session, Loaded(s), WriteRow(s)
        PROVE  /\ t = ses[s].ticket /\ ses[s].snap \in Row /\ ses[s].new \in Row
               /\ db'[t].current_level = ses[s].new.current_level
               /\ ses[s].new.current_level # ses[s].snap.current_level
               /\ Guarded(ses[s])
    <3>a. PICK u, snap, new : u = ses[s].ticket /\ snap = ses[s].snap /\ new = ses[s].new
      OBVIOUS
    <3>1. u \in Ticket /\ new \in Row /\ snap \in Row /\ Guarded(ses[s])
      BY <2>1, <2>4, <3>a DEF IInv, SessionInv, Holds, Loaded, GuardInv
    <3>2. db' = [db EXCEPT ![u] = Updated(db[u], snap, new)]
      BY <2>4, <3>a DEF WriteRow
    <3>3. t = u /\ db'[t] = Updated(db[t], snap, new)
      BY <2>1, <2>3, <3>1, <3>2 DEF IInv, TypeOK
    <3>4. Updated(db[t], snap, new).current_level =
            IF new.current_level # snap.current_level THEN new.current_level ELSE db[t].current_level
      BY DEF Updated
    <3> QED BY <2>3, <3>1, <3>3, <3>4, <3>a
  <2>5. ASSUME NEW s \in Session, Promote(s) \/ Decide(s)
        PROVE  FALSE
    <3>1. Loaded(s) /\ WriteRow(s) /\ ses[s].pc \in {"promote", "decide"}
      BY <2>5 DEF Promote, Decide, Loaded
    <3> QED BY <2>4, <3>1 DEF Guarded
  <2>6. ASSUME NEW s \in Session, PatchCommit(s)
        PROVE  Rightly(t)
    <3>1. Loaded(s) /\ WriteRow(s) /\ ses[s].pc = "patch" /\ crashes' = crashes
      BY <2>6 DEF PatchCommit, Loaded
    <3>a. PICK old, new : old = ses[s].snap.current_level /\ new = ses[s].new.current_level
      OBVIOUS
    <3>2. /\ t = ses[s].ticket /\ db'[t].current_level = new /\ new # old
          /\ old \in Level /\ new \in Level
          /\ Below(new, old) => ses[s].role = "admin"
      BY <2>4, <3>1, <3>a DEF Guarded, Row
    <3>3. Below(new, old) \/ Below(old, new)
      BY <3>2 DEF Below, ORDEM_NIVEL, Level
    <3>4. PICK x, events :
            /\ ses' = [ses EXCEPT ![s] = x]
            /\ x \in {Idle, [Idle EXCEPT !.pc = "notify", !.ticket = ses[s].ticket,
                                         !.events = events]}
      BY <2>6 DEF PatchCommit, Become
    <3>5. x.pc # "patch"
      <4>1. /\ Idle.pc = "idle"
            /\ [Idle EXCEPT !.pc = "notify", !.ticket = ses[s].ticket, !.events = events].pc = "notify"
        BY DEF Idle
      <4> QED BY <3>4, <4>1
    <3>6. ses'[s] # ses[s]
      BY <2>1, <3>1, <3>4, <3>5 DEF IInv, TypeOK
    <3> QED BY <3>1, <3>2, <3>3, <3>6, <3>a DEF Commits
  <2> HIDE DEF Rightly
  <2>7. ASSUME NEW u \in Ticket, NEW row, ~Exists(u), db' = [db EXCEPT ![u] = row]
        PROVE  FALSE
    BY <1>1, <2>1, <2>3, <2>7 DEF IInv, TypeOK, Exists
  <2>8. ASSUME UNCHANGED db
        PROVE  FALSE
    BY <2>3, <2>8
  <2>9. ASSUME NEW s \in Session, Proceed(s) \/ SweepStart(s) \/ Crash(s)
        PROVE  PatchCommit(s)
    BY <2>5, <2>8, <2>9
       DEF Proceed, PatchCheck, Notify, VipLoad, SweepNext, SweepStart, Crash
  <2>10. ASSUME NEW s \in Session, NEW u \in Ticket,
                CreateFromCatalog(s, u) \/ ApproveLoad(s, u) \/ PatchLoad(s, u)
         PROVE  FALSE
    BY <2>7, <2>8, <2>10 DEF CreateFromCatalog, ApproveLoad, PatchLoad
  <2>11. ASSUME NEW u \in Ticket, CreateTicket(u) \/ DeadlinePasses(u)
         PROVE  FALSE
    BY <2>7, <2>8, <2>11 DEF CreateTicket, DeadlinePasses
  <2>12. ASSUME NEW team \in Team, NEW technician \in Technician,
                AddMember(team, technician) \/ RemoveMember(team, technician)
         PROVE  FALSE
    BY <2>8, <2>12 DEF AddMember, RemoveMember
  <2>13. ~UNCHANGED vars
    BY <2>8 DEF vars
  <2> QED BY <1>1, <2>6, <2>9, <2>10, <2>11, <2>12, <2>13 DEF Next
<1> DEFINE Downgrade ==
      \A t \in Ticket :
          Exists(t) /\ Below(db'[t].current_level, db[t].current_level) => Rightly(t)
<1>2. Watched /\ [Next]_vars => Downgrade
  BY <1>1
<1>3. OnlyAdminDowngrades <=> [][Downgrade]_vars
  BY DEF OnlyAdminDowngrades
<1> HIDE DEF Downgrade
<1> QED BY <1>2, <1>3, GuardAlways, PTL DEF Spec
===========================================================================
