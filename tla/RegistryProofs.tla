--------------------------- MODULE RegistryProofs ---------------------------
(***************************************************************************)
(* Theorems about Registry for every number of sessions and requests and   *)
(* every desk to begin with.                                               *)
(***************************************************************************)
EXTENDS Registry, TLAPS

\* A decision, and a request, with all their fields.
Plan(p) == p = [error |-> p.error, op |-> p.op, table |-> p.table,
                pk |-> p.pk, key |-> p.key, role |-> p.role]
Request(c) == c = [at |-> c.at, plan |-> c.plan, status |-> c.status,
                   overtaken |-> c.overtaken, assets |-> c.assets]

Status == {0, 200, 201, 204, 403, 404, 409, 422, 500}

\* What a decision that was not refused may ask for.
Sound(p) ==
  /\ p.error = None
  /\ p.op \in {"insert", "update", "keep", "unfit", "delete"} /\ p.table \in Table
  /\ p.table = "relationship" => p.op \in {"insert", "delete"}

\* What nothing checks before the write: whether a body fits, and the renames.
Unchecked(p) == p.op = "unfit" \/ (p.op = "update" /\ p.table \in {"team", "category"})

Present(p) == \E r \in rows[p.table] : r.pk = p.pk

\* It asks for a relationship that is not there, keeps a row that is, and unless it is
\* unchecked neither a column nor an index is in its way.
Needed(p) ==
  /\ p.table = "relationship" /\ p.op = "insert" => ~Used("relationship", p.key)
  /\ p.op = "keep" => Present(p)
  /\ Refused(p) => Unchecked(p)

\* What a service may return, and the exceptions it may raise.
Decision(p) == Plan(p) /\ (p.error = None => Sound(p) /\ Needed(p))
Raises(p, errors) == Decision(p) /\ p.error \in errors \cup {None}

\* The assets linked to the ticket of a suggestion.
LinkedNow(p) == {r.key[2] : r \in Links(p.key[1])}

CallOK(c) ==
  /\ Request(c) /\ Plan(c.plan)
  /\ c.at \in {"idle", "checked", "stored", "reading"}
  /\ c.status \in Status /\ c.overtaken \in BOOLEAN
  /\ c.at \in {"checked", "stored"} => Sound(c.plan)
  /\ c.at = "checked" /\ ~c.overtaken => Needed(c.plan)
  /\ c.at = "stored" /\ ~c.overtaken => Present(c.plan)
  /\ c.at # "idle" => c.status # 500
  /\ c.status = 500 /\ ~c.overtaken => Unchecked(c.plan)
  /\ c.at = "reading" /\ ~c.overtaken => c.assets = LinkedNow(c.plan)

CallInv == DOMAIN call = Session /\ \A s \in Session : CallOK(call[s])

RowsType ==
  /\ DOMAIN rows = Table
  /\ \A table \in Table : \A r \in rows[table] : DOMAIN r = {"pk", "key", "role"}

\* The inductive invariant: a request that nobody overtook still has its reason to write.
IInv == /\ RowsType /\ lastId \in Nat /\ calls \in 0..MaxCalls
        /\ CallInv /\ UniqueKeys /\ DuplicatesAreRaces

LEMMA InvTypes == IInv => TypeOK
BY DEF IInv, TypeOK, RowsType, CallInv, CallOK, Sound, Status

LEMMA InitInv == Init => IInv
<1> SUFFICES ASSUME Init PROVE IInv
  OBVIOUS
<1>1. RowsType /\ lastId \in Nat /\ calls \in 0..MaxCalls
  BY SeedAssumption DEF Init, RowsType
<1>2. CallOK(Idle)
  BY DEF CallOK, Idle, Request, Plan, Raise, Status, Unchecked
<1>3. CallInv
  BY <1>2 DEF Init, CallInv
<1>4. UniqueKeys
  BY SeedAssumption DEF Init, UniqueKeys
<1>5. DuplicatesAreRaces
  BY SeedAssumption DEF Init, DuplicatesAreRaces
<1> QED
  BY <1>1, <1>3, <1>4, <1>5 DEF IInv

--------------------------------------------------------------------------
(* Steps that write nothing *)

\* A request changes its place and no row changes.
LEMMA OneCall ==
    ASSUME IInv, NEW s \in Session, NEW c, CallOK(c),
           call' = [call EXCEPT ![s] = c],
           calls' \in 0..MaxCalls, UNCHANGED <<rows, lastId, raced>>
    PROVE  IInv'
<1>1. CallInv'
  <2>1. DOMAIN call' = Session /\ \A t \in Session : call'[t] = c \/ call'[t] = call[t]
    BY DEF IInv, CallInv
  <2>2. \A t \in Session : CallOK(call'[t])
    BY <2>1 DEF IInv, CallInv
  <2> QED
    BY <2>1, <2>2 DEF CallInv, CallOK, Needed, Used, Present, Refused, Taken, LinkedNow, Links
<1>2. RowsType' /\ UniqueKeys' /\ DuplicatesAreRaces'
  BY DEF IInv, RowsType, UniqueKeys, UniqueKeysOf, Clash, DuplicatesAreRaces
<1> QED
  BY <1>1, <1>2 DEF IInv

\* A request with all its fields spelt out.
LEMMA MadeCall ==
    ASSUME NEW at, NEW plan, NEW status \in Status, NEW overtaken \in BOOLEAN, NEW assets,
           Plan(plan), at \in {"idle", "checked", "stored", "reading"},
           at \in {"checked", "stored"} => Sound(plan),
           at = "checked" /\ ~overtaken => Needed(plan), at \in {"idle", "checked"},
           status # 500
    PROVE  CallOK([at |-> at, plan |-> plan, status |-> status,
                   overtaken |-> overtaken, assets |-> assets])
BY DEF CallOK, Request

\* What a request that has nothing to do holds.
LEMMA IdleParts ==
    /\ Request(Idle)
    /\ Idle.at = "idle" /\ Idle.plan = Raise(None) /\ Idle.status = 0
    /\ Idle.overtaken = FALSE /\ Idle.assets = {}
BY DEF Idle, Request

\* One field of a request changes.
LEMMA SetPlan ==
    ASSUME NEW c, Request(c), NEW plan
    PROVE  [c EXCEPT !.plan = plan] = [at |-> c.at, plan |-> plan, status |-> c.status,
                                       overtaken |-> c.overtaken, assets |-> c.assets]
BY DEF Request

LEMMA SetStatus ==
    ASSUME NEW c, Request(c), NEW status
    PROVE  [c EXCEPT !.status = status] = [at |-> c.at, plan |-> c.plan, status |-> status,
                                           overtaken |-> c.overtaken, assets |-> c.assets]
BY DEF Request

LEMMA SetAt ==
    ASSUME NEW c, Request(c), NEW at
    PROVE  [c EXCEPT !.at = at] = [at |-> at, plan |-> c.plan, status |-> c.status,
                                   overtaken |-> c.overtaken, assets |-> c.assets]
BY DEF Request

LEMMA AnswerParts ==
    ASSUME NEW plan, NEW status
    PROVE  Answer(plan, status) = [at |-> "idle", plan |-> plan, status |-> status,
                                   overtaken |-> FALSE, assets |-> {}]
<1> DEFINE a == [Idle EXCEPT !.plan = plan]
<1>1. a = [at |-> "idle", plan |-> plan, status |-> 0, overtaken |-> FALSE, assets |-> {}]
  BY IdleParts, SetPlan
<1>2. Request(a) /\ a.at = "idle" /\ a.plan = plan /\ a.overtaken = FALSE /\ a.assets = {}
  BY <1>1 DEF Request
<1>3. Answer(plan, status) = [a EXCEPT !.status = status]
  BY DEF Answer
<1> HIDE DEF a
<1> QED
  BY <1>2, <1>3, SetStatus

LEMMA AnswerOK ==
    ASSUME NEW plan, NEW status \in Status \ {500}, Plan(plan)
    PROVE  CallOK(Answer(plan, status))
BY AnswerParts, MadeCall

\* A route, whoever calls it, leaves a decision of its service or an answer.
LEMMA ServeKeeps ==
    ASSUME IInv, NEW s \in Session, NEW roles, NEW plan, NEW caught, NEW success,
           Raises(plan, DOMAIN caught), success \in Status \ {500},
           \A e \in DOMAIN caught : caught[e] \in Status \ {500},
           Serve(s, roles, plan, caught, success)
    PROVE  IInv'
<1>1. PICK role \in Role : call' = [call EXCEPT ![s] =
       IF role \notin roles THEN Answer(Raise(None), 403)
       ELSE IF plan.error = None
       THEN [Idle EXCEPT !.at = "checked", !.plan = plan, !.status = success]
       ELSE Answer(plan, IF plan.error \in DOMAIN caught THEN caught[plan.error] ELSE 500)]
  BY DEF Serve
<1>2. calls' \in 0..MaxCalls /\ UNCHANGED <<rows, lastId, raced>>
  BY SeedAssumption DEF Serve, Receive, IInv
<1>3. CASE role \notin roles
  <2>1. Plan(Raise(None)) /\ 403 \in Status \ {500}
    BY DEF Plan, Raise, Status
  <2>2. CallOK(Answer(Raise(None), 403))
    BY <2>1, AnswerOK
  <2> QED
    BY <1>1, <1>2, <1>3, <2>2, OneCall
<1>4. CASE role \in roles /\ plan.error = None
  <2> DEFINE c == [at |-> "checked", plan |-> plan, status |-> success,
                   overtaken |-> FALSE, assets |-> {}]
  <2>1. [Idle EXCEPT !.at = "checked", !.plan = plan, !.status = success] = c
    <3>1. [Idle EXCEPT !.at = "checked", !.plan = plan, !.status = success]
            = [Answer(plan, success) EXCEPT !.at = "checked"]
      BY DEF Answer
    <3>2. PICK b : b = Answer(plan, success)
      OBVIOUS
    <3>3. /\ Request(b) /\ b.plan = plan /\ b.status = success
          /\ b.overtaken = FALSE /\ b.assets = {}
      BY <3>2, AnswerParts DEF Request
    <3>4. [b EXCEPT !.at = "checked"] = c
      BY <3>3, SetAt
    <3> QED
      BY <3>1, <3>2, <3>4
  <2>2. CallOK(c)
    BY <1>4, MadeCall DEF Raises, Decision
  <2>3. call' = [call EXCEPT ![s] = c]
    BY <1>1, <1>4, <2>1
  <2> HIDE DEF c
  <2> QED
    BY <1>2, <2>2, <2>3, OneCall
<1>5. CASE role \in roles /\ plan.error # None
  <2> DEFINE status == IF plan.error \in DOMAIN caught THEN caught[plan.error] ELSE 500
  <2>1. status \in Status \ {500}
    BY <1>5 DEF Raises
  <2> HIDE DEF status
  <2>2. CallOK(Answer(plan, status))
    BY <2>1, AnswerOK DEF Raises, Decision
  <2>3. call' = [call EXCEPT ![s] = Answer(plan, status)]
    BY <1>1, <1>5 DEF status
  <2> QED
    BY <1>2, <2>2, <2>3, OneCall
<1> QED
  BY <1>3, <1>4, <1>5

--------------------------------------------------------------------------
(* The decisions of the services *)

LEMMA RaiseIsDecision ==
    ASSUME NEW error \in Error, NEW errors, error \in errors
    PROVE  Raises(Raise(error), errors)
BY SeedAssumption DEF Raises, Decision, Raise, Plan

\* The insert of a key that was looked for, or that needs no look.
LEMMA InsertIsDecision ==
    ASSUME NEW table \in Table, NEW key, NEW role, NEW errors,
           table = "subcategory" \/ key = <<None>> \/ ~Used(table, key),
           table = "relationship" => ~Used(table, key)
    PROVE  Raises(Insert(table, key, role), errors)
BY DEF Raises, Decision, Insert, Plan, Sound, Needed, Refused, Taken, Used, Indexed

LEMMA KeepIsDecision ==
    ASSUME NEW table \in Table, table # "relationship", NEW id, NEW errors, Stored(table, id)
    PROVE  Raises(Keep(table, id), errors)
BY DEF Raises, Decision, Keep, Plan, Sound, Needed, Present, Stored, Refused

LEMMA UnfitIsDecision ==
    ASSUME NEW table \in Table, table # "relationship", NEW id, NEW errors
    PROVE  Raises(Unfit(table, id), errors)
<1>1. PICK k : k = Keep(table, id)
  OBVIOUS
<1>2. Plan(k) /\ k.error = None /\ k.table = table
  BY <1>1 DEF Keep, Plan
<1>3. PICK u : u = [k EXCEPT !.op = "unfit"]
  OBVIOUS
<1>4. Plan(u) /\ u.error = None /\ u.table = table /\ u.op = "unfit"
  BY <1>2, <1>3 DEF Plan
<1>5. Unfit(table, id) = u
  BY <1>1, <1>3 DEF Unfit
<1> QED
  BY <1>4, <1>5 DEF Raises, Decision, Sound, Needed, Unchecked

\* The update of a key that no other row has, or of one that nobody looked for.
LEMMA ChangeIsDecision ==
    ASSUME NEW table \in Table, table # "relationship", NEW id, NEW key, NEW fits, NEW errors,
           Stored(table, id),
           \/ table \in {"team", "category", "subcategory"} \/ key = <<None>>
           \/ \A r \in rows[table] : r.key = key => r.pk = <<id>>
    PROVE  Raises(Change(table, id, key, fits), errors)
<1>0. CASE ~fits
  BY <1>0, UnfitIsDecision DEF Change
<1>1. CASE fits /\ \E r \in rows[table] : r.pk = <<id>> /\ r.key = key
  BY <1>1, KeepIsDecision DEF Change
<1>2. CASE fits /\ ~\E r \in rows[table] : r.pk = <<id>> /\ r.key = key
  <2>1. PICK k : k = Keep(table, id)
    OBVIOUS
  <2>2. Plan(k) /\ k.error = None /\ k.table = table /\ k.pk = <<id>>
    BY <2>1 DEF Keep, Plan
  <2>3. PICK u : u = [k EXCEPT !.op = "update"]
    OBVIOUS
  <2>4. Plan(u) /\ u.error = None /\ u.table = table /\ u.op = "update" /\ u.pk = <<id>>
    BY <2>2, <2>3 DEF Plan
  <2>5. PICK c : c = [u EXCEPT !.key = key]
    OBVIOUS
  <2>6. /\ Plan(c) /\ c.error = None /\ c.table = table /\ c.op = "update"
        /\ c.pk = <<id>> /\ c.key = key
    BY <2>4, <2>5 DEF Plan
  <2>7. Change(table, id, key, fits) = c
    BY <1>2, <2>1, <2>3, <2>5 DEF Change
  <2>8. Sound(c)
    BY <2>6 DEF Sound
  <2>9. Refused(c) => Unchecked(c)
    BY <2>6 DEF Refused, Taken, Unchecked, Indexed
  <2>10. Needed(c)
    BY <2>6, <2>9 DEF Needed
  <2> QED
    BY <2>6, <2>7, <2>8, <2>10 DEF Raises, Decision
<1> QED
  BY <1>0, <1>1, <1>2

LEMMA DeleteIsDecision ==
    ASSUME NEW table \in Table, NEW pk, NEW errors
    PROVE  Raises(Delete(table, pk), errors)
BY DEF Raises, Decision, Delete, Plan, Sound, Needed, Refused

\* Whatever its arguments, a service raises one of its exceptions or asks for one sound write.
LEMMA TeamDecisions ==
    ASSUME NEW id, NEW name, NEW user, NEW weekday, NEW fits
    PROVE  /\ Raises(create_team(name), {"DuplicateTeamName"})
           /\ Raises(update_team(id, name, fits), {"TeamNotFound"})
           /\ Raises(add_member(id, user),
                     {"TeamNotFound", "InvalidTeamMember", "MembershipAlreadyExists"})
           /\ Raises(remove_member(id, user), {"MembershipNotFound"})
           /\ Raises(add_schedule_entry(id, weekday), {"TeamNotFound", "DuplicateScheduleDay"})
           /\ Raises(remove_schedule_entry(user, id), {"ScheduleNotFound"})
<1>1. Raises(create_team(name), {"DuplicateTeamName"})
  BY RaiseIsDecision, InsertIsDecision DEF create_team, Table, Error
<1>2. Raises(update_team(id, name, fits), {"TeamNotFound"})
  BY RaiseIsDecision, ChangeIsDecision DEF update_team, Table, Error
<1>3. Raises(add_member(id, user),
             {"TeamNotFound", "InvalidTeamMember", "MembershipAlreadyExists"})
  BY RaiseIsDecision, InsertIsDecision DEF add_member, Table, Error
<1>4. Raises(remove_member(id, user), {"MembershipNotFound"})
  BY RaiseIsDecision, DeleteIsDecision DEF remove_member, Table, Error
<1>5. Raises(add_schedule_entry(id, weekday), {"TeamNotFound", "DuplicateScheduleDay"})
  BY RaiseIsDecision, InsertIsDecision DEF add_schedule_entry, Table, Error
<1>6. Raises(remove_schedule_entry(user, id), {"ScheduleNotFound"})
  BY RaiseIsDecision, DeleteIsDecision DEF remove_schedule_entry, Table, Error
<1> QED
  BY <1>1, <1>2, <1>3, <1>4, <1>5, <1>6

LEMMA DeskDecisions ==
    ASSUME NEW id, NEW name, NEW ref, NEW priority, NEW role, NEW fits
    PROVE  /\ Raises(create_policy(priority, fits), {"DuplicateSLAPolicy"})
           /\ Raises(update_policy(id, fits), {"SLAPolicyNotFound"})
           /\ Raises(create_category(name, ref), {"DuplicateCategoryName", "TeamNotFound"})
           /\ Raises(update_category(id, name, ref, fits), {"CategoryNotFound", "TeamNotFound"})
           /\ Raises(create_subcategory(name, ref), {"CategoryNotFound"})
           /\ Raises(update_subcategory(id, name, ref, fits), {"SubcategoryNotFound", "CategoryNotFound"})
           /\ Raises(create_user(name, role), {"EmailAlreadyExists", "RoleNotFound"})
<1>1. Raises(create_policy(priority, fits), {"DuplicateSLAPolicy"})
  BY RaiseIsDecision, InsertIsDecision, UnfitIsDecision DEF create_policy, Table, Error
<1>2. Raises(update_policy(id, fits), {"SLAPolicyNotFound"})
  BY RaiseIsDecision, KeepIsDecision, UnfitIsDecision DEF update_policy, Table, Error
<1>3. Raises(create_category(name, ref), {"DuplicateCategoryName", "TeamNotFound"})
  BY RaiseIsDecision, InsertIsDecision DEF create_category, Table, Error
<1>4. Raises(update_category(id, name, ref, fits), {"CategoryNotFound", "TeamNotFound"})
  BY RaiseIsDecision, ChangeIsDecision DEF update_category, Table, Error
<1>5. Raises(create_subcategory(name, ref), {"CategoryNotFound"})
  BY RaiseIsDecision, InsertIsDecision DEF create_subcategory, Table, Error
<1>6. Raises(update_subcategory(id, name, ref, fits), {"SubcategoryNotFound", "CategoryNotFound"})
  BY RaiseIsDecision, ChangeIsDecision DEF update_subcategory, Table, Error
<1>7. Raises(create_user(name, role), {"EmailAlreadyExists", "RoleNotFound"})
  BY RaiseIsDecision, InsertIsDecision DEF create_user, Table, Error
<1> QED
  BY <1>1, <1>2, <1>3, <1>4, <1>5, <1>6, <1>7

LEMMA AssetDecisions ==
    ASSUME NEW id, NEW serial, NEW user, NEW other, NEW kind, NEW ticket, NEW fits
    PROVE  /\ Raises(create_asset(serial, user), {"DuplicateSerialNumber", "InvalidResponsible"})
           /\ Raises(update_asset(id, serial, user, fits),
                     {"AssetNotFound", "DuplicateSerialNumber", "InvalidResponsible"})
           /\ Raises(create_relationship(id, other, kind), {"AssetNotFound", "DuplicateRelationship"})
           /\ Raises(delete_relationship(id), {"RelationshipNotFound"})
           /\ Raises(link_asset(ticket, id), {"TicketNotFound", "AssetNotFound", "DuplicateLink"})
           /\ Raises(unlink_asset(ticket, id), {"LinkNotFound"})
<1>1. Raises(create_asset(serial, user), {"DuplicateSerialNumber", "InvalidResponsible"})
  BY RaiseIsDecision, InsertIsDecision DEF create_asset, Table, Error
<1>2. Raises(update_asset(id, serial, user, fits),
             {"AssetNotFound", "DuplicateSerialNumber", "InvalidResponsible"})
  BY RaiseIsDecision, ChangeIsDecision DEF update_asset, Table, Error
<1>3. Raises(create_relationship(id, other, kind), {"AssetNotFound", "DuplicateRelationship"})
  BY RaiseIsDecision, InsertIsDecision DEF create_relationship, Table, Error
<1>4. Raises(delete_relationship(id), {"RelationshipNotFound"})
  BY RaiseIsDecision, DeleteIsDecision DEF delete_relationship, Table, Error
<1>5. Raises(link_asset(ticket, id), {"TicketNotFound", "AssetNotFound", "DuplicateLink"})
  BY RaiseIsDecision, InsertIsDecision DEF link_asset, Table, Error
<1>6. Raises(unlink_asset(ticket, id), {"LinkNotFound"})
  BY RaiseIsDecision, DeleteIsDecision DEF unlink_asset, Table, Error
<1> QED
  BY <1>1, <1>2, <1>3, <1>4, <1>5, <1>6

--------------------------------------------------------------------------
(* The routes *)

LEMMA ConfigureKeeps ==
    ASSUME IInv, NEW s \in Session, Configure(s)
    PROVE  IInv'
<1>1. CASE add_team(s)
  BY <1>1, ServeKeeps, TeamDecisions DEF add_team, Raises, Status
<1>2. CASE edit_team(s)
  BY <1>2, ServeKeeps, TeamDecisions DEF edit_team, Raises, Status
<1>3. CASE add_team_member(s)
  BY <1>3, ServeKeeps, TeamDecisions DEF add_team_member, Raises, Status
<1>4. CASE remove_team_member(s)
  BY <1>4, ServeKeeps, TeamDecisions DEF remove_team_member, Raises, Status
<1>5. CASE add_team_schedule(s)
  BY <1>5, ServeKeeps, TeamDecisions DEF add_team_schedule, Raises, Status
<1>6. CASE remove_team_schedule(s)
  BY <1>6, ServeKeeps, TeamDecisions DEF remove_team_schedule, Raises, Status
<1>7. CASE add_policy(s)
  BY <1>7, ServeKeeps, DeskDecisions DEF add_policy, Raises, Status
<1>8. CASE edit_policy(s)
  BY <1>8, ServeKeeps, DeskDecisions DEF edit_policy, Raises, Status
<1>9. CASE add_category(s)
  BY <1>9, ServeKeeps, DeskDecisions DEF add_category, Raises, Status
<1>10. CASE edit_category(s)
  BY <1>10, ServeKeeps, DeskDecisions DEF edit_category, Raises, Status
<1>11. CASE add_subcategory(s)
  BY <1>11, ServeKeeps, DeskDecisions DEF add_subcategory, Raises, Status
<1>12. CASE edit_subcategory(s)
  BY <1>12, ServeKeeps, DeskDecisions DEF edit_subcategory, Raises, Status
<1>13. CASE register_user(s)
  BY <1>13, ServeKeeps, DeskDecisions DEF register_user, Raises, Status
<1> QED
  BY <1>1, <1>2, <1>3, <1>4, <1>5, <1>6, <1>7, <1>8, <1>9, <1>10, <1>11, <1>12, <1>13
     DEF Configure

LEMMA SuggestionReadKeeps ==
    ASSUME IInv, NEW s \in Session, read_affected_asset_suggestions(s)
    PROVE  IInv'
<1>1. PICK ticket \in Ticket \cup {0}, role \in Role : call' = [call EXCEPT ![s] =
       IF role \notin Staff THEN Answer(Raise(None), 403)
       ELSE IF ticket \notin Ticket THEN Answer(Raise("TicketNotFound"), 404)
       ELSE [Answer(Suggest(ticket), 200) EXCEPT
               !.at = "reading", !.assets = {r.key[2] : r \in Links(ticket)}]]
  BY DEF read_affected_asset_suggestions
<1>2. calls' \in 0..MaxCalls /\ UNCHANGED <<rows, lastId, raced>>
  BY SeedAssumption DEF read_affected_asset_suggestions, Receive, IInv
<1>3. Plan(Raise(None)) /\ Plan(Raise("TicketNotFound")) /\ Plan(Suggest(ticket))
  BY DEF Plan, Raise, Suggest
<1>4. CallOK(Answer(Raise(None), 403)) /\ CallOK(Answer(Raise("TicketNotFound"), 404))
  BY <1>3, AnswerOK DEF Status
<1> DEFINE found == {r.key[2] : r \in Links(ticket)}
           reading == [Answer(Suggest(ticket), 200) EXCEPT !.at = "reading", !.assets = found]
<1>5. call' = [call EXCEPT ![s] =
       IF role \notin Staff THEN Answer(Raise(None), 403)
       ELSE IF ticket \notin Ticket THEN Answer(Raise("TicketNotFound"), 404)
       ELSE reading]
  BY <1>1
<1> HIDE DEF found
<1>6. CallOK(reading)
  <2>1. PICK a : a = Answer(Suggest(ticket), 200)
    OBVIOUS
  <2>2. Request(a) /\ a.plan = Suggest(ticket) /\ a.status = 200 /\ a.overtaken = FALSE
    BY <2>1, AnswerParts DEF Request
  <2>3. PICK b : b = [a EXCEPT !.at = "reading"]
    OBVIOUS
  <2>4. /\ Request(b) /\ b.plan = Suggest(ticket) /\ b.status = 200 /\ b.overtaken = FALSE
        /\ b.at = "reading"
    BY <2>2, <2>3 DEF Request
  <2>5. PICK c : c = [b EXCEPT !.assets = found]
    OBVIOUS
  <2>6. /\ Request(c) /\ c.plan = Suggest(ticket) /\ c.status = 200 /\ c.overtaken = FALSE
        /\ c.at = "reading" /\ c.assets = found
    BY <2>4, <2>5 DEF Request
  <2>9. c.status \in Status /\ c.status # 500 /\ c.at \notin {"checked", "stored"} /\ Plan(c.plan)
    BY <1>3, <2>6 DEF Status
  <2>10. c.assets = LinkedNow(c.plan)
    BY <2>6 DEF LinkedNow, Suggest, found
  <2>7. CallOK(c)
    BY <2>6, <2>9, <2>10 DEF CallOK
  <2>8. reading = c
    BY <2>1, <2>3, <2>5
  <2> QED
    BY <2>7, <2>8
<1> HIDE DEF reading
<1>7. CASE role \notin Staff
  BY <1>2, <1>4, <1>5, <1>7, OneCall
<1>8. CASE role \in Staff /\ ticket \notin Ticket
  <2> DEFINE refused == Answer(Raise("TicketNotFound"), 404)
  <2>1. call' = [call EXCEPT ![s] = refused] /\ CallOK(refused)
    BY <1>4, <1>5, <1>8
  <2> HIDE DEF refused
  <2> QED
    BY <1>2, <2>1, OneCall
<1>9. CASE role \in Staff /\ ticket \in Ticket
  BY <1>2, <1>5, <1>6, <1>9, OneCall
<1> QED
  BY <1>7, <1>8, <1>9

\* What a request in progress holds, field by field.
LEMMA CallParts ==
    ASSUME IInv, NEW s \in Session
    PROVE  CallOK(call[s]) /\ Request(call[s]) /\ Plan(call[s].plan)
BY DEF IInv, CallInv, CallOK

LEMMA SuggestionKeeps ==
    ASSUME IInv, NEW s \in Session, suggest_affected_assets(s)
    PROVE  IInv'
<1>0. PICK c : c = call[s]
  OBVIOUS
<1>1. Request(c)
  BY <1>0, CallParts
<1>2. PICK a : a = [c EXCEPT !.at = "idle"]
  OBVIOUS
<1>3. /\ Request(a) /\ a.plan = c.plan /\ a.at = "idle"
      /\ a.status = c.status /\ a.overtaken = c.overtaken
  BY <1>1, <1>2 DEF Request
<1>4. PICK b : b = [a EXCEPT !.assets = Neighbours(a.assets)]
  OBVIOUS
<1>5. /\ Request(b) /\ b.plan = c.plan /\ b.at = "idle"
      /\ b.status = c.status /\ b.overtaken = c.overtaken
  BY <1>3, <1>4 DEF Request
<1>6. CallOK(b)
  BY <1>0, <1>5, CallParts DEF CallOK
<1>7. call' = [call EXCEPT ![s] = b]
  BY <1>0, <1>1, <1>2, <1>3, <1>4 DEF suggest_affected_assets, Request, IInv, CallInv
<1> QED
  BY <1>6, <1>7, OneCall DEF suggest_affected_assets, IInv

LEMMA ManageAssetsKeeps ==
    ASSUME IInv, NEW s \in Session, ManageAssets(s)
    PROVE  IInv'
<1>1. CASE add_asset(s)
  BY <1>1, ServeKeeps, AssetDecisions DEF add_asset, Raises, Status
<1>2. CASE edit_asset(s)
  BY <1>2, ServeKeeps, AssetDecisions DEF edit_asset, Raises, Status
<1>3. CASE add_relationship(s)
  BY <1>3, ServeKeeps, AssetDecisions DEF add_relationship, Raises, Status
<1>4. CASE remove_relationship(s)
  BY <1>4, ServeKeeps, AssetDecisions DEF remove_relationship, Raises, Status
<1>5. CASE add_ticket_asset(s)
  BY <1>5, ServeKeeps, AssetDecisions DEF add_ticket_asset, Raises, Status
<1>6. CASE remove_ticket_asset(s)
  BY <1>6, ServeKeeps, AssetDecisions DEF remove_ticket_asset, Raises, Status
<1> QED
  BY <1>1, <1>2, <1>3, <1>4, <1>5, <1>6, SuggestionReadKeeps, SuggestionKeeps DEF ManageAssets

LEMMA IntegrityErrorKeeps ==
    ASSUME IInv, NEW s \in Session, IntegrityError(s)
    PROVE  IInv'
<1>0. PICK c : c = call[s]
  OBVIOUS
<1>1. Request(c)
  BY <1>0, CallParts
<1>2. PICK a : a = [c EXCEPT !.at = "idle"]
  OBVIOUS
<1>3. Request(a) /\ a.plan = c.plan /\ a.at = "idle" /\ a.overtaken = c.overtaken
  BY <1>1, <1>2 DEF Request
<1>4. PICK b : b = [a EXCEPT !.status = 500]
  OBVIOUS
<1>5. /\ Request(b) /\ b.plan = c.plan /\ b.at = "idle"
      /\ b.status = 500 /\ b.overtaken = c.overtaken
  BY <1>3, <1>4 DEF Request
<1>8. CallOK(c) /\ c.at = "checked" /\ Refused(c.plan)
  BY <1>0, CallParts DEF IntegrityError
<1>9. ~c.overtaken => Unchecked(c.plan)
  BY <1>8 DEF CallOK, Needed
<1>6. CallOK(b)
  BY <1>5, <1>8, <1>9 DEF CallOK, Status
<1>7. call' = [call EXCEPT ![s] = b]
  BY <1>0, <1>1, <1>2, <1>3, <1>4 DEF IntegrityError, Request, IInv, CallInv
<1> QED
  BY <1>6, <1>7, OneCall DEF IntegrityError, IInv

LEMMA RefreshKeeps ==
    ASSUME IInv, NEW s \in Session, Refresh(s)
    PROVE  IInv'
<1> DEFINE found == \E r \in rows[call[s].plan.table] : r.pk = call[s].plan.pk
<1>0. PICK c : c = call[s]
  OBVIOUS
<1>1. Request(c)
  BY <1>0, CallParts
<1>2. PICK a : a = [c EXCEPT !.at = "idle"]
  OBVIOUS
<1>3. /\ Request(a) /\ a.plan = c.plan /\ a.at = "idle"
      /\ a.status = c.status /\ a.overtaken = c.overtaken
  BY <1>1, <1>2 DEF Request
<1> HIDE DEF found
<1>4. PICK b : b = [a EXCEPT !.status = IF found THEN a.status ELSE 500]
  OBVIOUS
<1>5. /\ Request(b) /\ b.plan = c.plan /\ b.at = "idle"
      /\ b.status \in {c.status, 500} /\ b.overtaken = c.overtaken
  BY <1>3, <1>4 DEF Request
<1>8. CallOK(c) /\ c.at = "stored" /\ (Present(c.plan) => found)
  BY <1>0, CallParts DEF Refresh, Present, found
<1>9. b.status = IF found THEN c.status ELSE 500
  BY <1>3, <1>4 DEF Request
<1>10. ~c.overtaken => b.status = c.status
  BY <1>8, <1>9 DEF CallOK
<1>11. c.status # 500 /\ c.status \in Status /\ Plan(c.plan) /\ c.overtaken \in BOOLEAN
  BY <1>8 DEF CallOK
<1>6. CallOK(b)
  BY <1>5, <1>10, <1>11 DEF CallOK, Status
<1>7. call' = [call EXCEPT ![s] = b]
  BY <1>0, <1>1, <1>2, <1>3, <1>4 DEF Refresh, Request, IInv, CallInv, found
<1> QED
  BY <1>6, <1>7, OneCall DEF Refresh, IInv

--------------------------------------------------------------------------
(* The commit *)

\* A unique index that did not refuse leaves the keys of every table unique.
LEMMA CommitKeepsUnique ==
    ASSUME IInv, NEW s \in Session, Commit(s)
    PROVE  UniqueKeys'
<1> DEFINE plan == call[s].plan
<1>1. Sound(plan) /\ ~Refused(plan)
  BY DEF IInv, CallInv, CallOK, Commit
<1>2. rows' = [rows EXCEPT ![plan.table] = Written(plan)] /\ DOMAIN rows = Table
  BY DEF Commit, IInv, RowsType
<1> HIDE DEF plan
<1>3. \A table \in Table : table # plan.table => rows'[table] = rows[table]
  BY <1>2
<1>4. rows'[plan.table] = Written(plan)
  BY <1>1, <1>2 DEF Sound
<1>5. ASSUME plan.table \in Indexed, NEW r \in Written(plan), NEW q \in Written(plan), Clash(r, q)
      PROVE  FALSE
  <2>1. CASE r \in rows[plan.table] /\ q \in rows[plan.table]
    BY <1>1, <1>5, <2>1 DEF IInv, UniqueKeys, UniqueKeysOf, Sound
  <2> DEFINE n == [pk |-> NewKey(plan), key |-> plan.key, role |-> plan.role]
  <2>2. \A w \in Written(plan) : w \in rows[plan.table] \/
          (w = n /\ plan.op \in {"insert", "update"}
             /\ \A x \in Written(plan) : x = n \/ (x \in rows[plan.table] /\ x.pk # plan.pk))
    BY <1>1 DEF Written, Sound, Refused
  <2>3. n.pk = NewKey(plan) /\ n.key = plan.key
    OBVIOUS
  <2> HIDE DEF n
  <2>4. ASSUME NEW x \in rows[plan.table], x.pk # plan.pk, x.key = plan.key,
               plan.op \in {"insert", "update"}
        PROVE  plan.key = <<None>>
    BY <1>1, <1>5, <2>4 DEF Refused, Taken
  <2>5. CASE r \notin rows[plan.table]
    BY <1>5, <2>2, <2>3, <2>4, <2>5 DEF Clash
  <2>6. CASE q \notin rows[plan.table]
    BY <1>5, <2>2, <2>3, <2>4, <2>6 DEF Clash
  <2> QED
    BY <2>1, <2>5, <2>6
<1>6. ASSUME NEW table \in Table PROVE UniqueKeysOf(table, rows'[table])
  <2>1. CASE table = plan.table
    BY <1>4, <1>5, <2>1 DEF UniqueKeysOf
  <2>2. CASE table # plan.table
    BY <1>3, <2>2 DEF IInv, UniqueKeys
  <2> QED
    BY <2>1, <2>2
<1> QED
  BY <1>6 DEF UniqueKeys, UniqueKeysOf

\* A relationship is written twice only by somebody who was overtaken.
LEMMA CommitKeepsRaces ==
    ASSUME IInv, NEW s \in Session, Commit(s)
    PROVE  DuplicatesAreRaces'
<1> DEFINE plan == call[s].plan
           n == [pk |-> NewKey(plan), key |-> plan.key, role |-> plan.role]
<1>1. Sound(plan) /\ (~call[s].overtaken => Needed(plan))
  BY DEF IInv, CallInv, CallOK, Commit
<1>2. /\ rows' = [rows EXCEPT ![plan.table] = Written(plan)] /\ DOMAIN rows = Table
      /\ raced' = IF call[s].overtaken THEN raced \cup {NewKey(plan)} ELSE raced
  BY DEF Commit, IInv, RowsType
<1> HIDE DEF plan
<1>3. CASE plan.table # "relationship"
  <2>1. rows'["relationship"] = rows["relationship"]
    BY <1>2, <1>3
  <2> QED
    BY <1>2, <2>1 DEF IInv, DuplicatesAreRaces
<1>4. CASE plan.table = "relationship"
  <2>1. rows'["relationship"] = Written(plan)
    BY <1>1, <1>2, <1>4 DEF Sound
  <2>2. \A w \in Written(plan) :
          w \in rows["relationship"] \/ (w = n /\ plan.op = "insert")
    BY <1>1, <1>4 DEF Written, Sound
  <2>3. n.pk = NewKey(plan) /\ n.key = plan.key
    OBVIOUS
  <2> HIDE DEF n
  <2>4. ASSUME NEW r \in Written(plan), NEW q \in Written(plan), r.key = q.key, r.pk # q.pk
        PROVE  {r.pk, q.pk} \cap raced' # {}
    <3>1. CASE r \in rows["relationship"] /\ q \in rows["relationship"]
      BY <1>2, <2>4, <3>1 DEF IInv, DuplicatesAreRaces
    <3>2. ASSUME NEW x \in rows["relationship"], x.key = plan.key, plan.op = "insert"
          PROVE  call[s].overtaken
      BY <1>1, <1>4, <3>2 DEF Needed, Used
    <3>3. CASE r \notin rows["relationship"]
      BY <1>2, <2>2, <2>3, <2>4, <3>2, <3>3
    <3>4. CASE q \notin rows["relationship"]
      BY <1>2, <2>2, <2>3, <2>4, <3>2, <3>4
    <3> QED
      BY <3>1, <3>3, <3>4
  <2> QED
    BY <2>1, <2>4 DEF DuplicatesAreRaces
<1> QED
  BY <1>3, <1>4

\* The writer goes on; the others learn that their reads are stale.
LEMMA CommitKeepsCalls ==
    ASSUME IInv, NEW s \in Session, Commit(s)
    PROVE  CallInv'
<1> DEFINE plan == call[s].plan
<1>1. Sound(plan) /\ Plan(plan) /\ CallOK(call[s])
  BY DEF IInv, CallInv, CallOK, Commit
<1>2. /\ rows' = [rows EXCEPT ![plan.table] = Written(plan)] /\ DOMAIN rows = Table
      /\ call' = [t \in Session |->
           IF t = s THEN [call[s] EXCEPT !.at = IF Refreshes(plan) THEN "stored" ELSE "idle",
                                         !.plan.pk = NewKey(plan)]
           ELSE [call[t] EXCEPT !.overtaken = @ \/ Overtakes(plan, call[t])]]
  BY DEF Commit, IInv, RowsType
<1> HIDE DEF plan
<1>3. CallOK(call[s])'
  <2>1. PICK c : c = call[s]
    OBVIOUS
  <2>2. Request(c) /\ c.plan = plan /\ CallOK(c)
    BY <1>1, <2>1 DEF CallOK, plan
  <2>3. PICK at : at = IF Refreshes(plan) THEN "stored" ELSE "idle"
    OBVIOUS
  <2>4. PICK a : a = [c EXCEPT !.at = at]
    OBVIOUS
  <2>5. /\ Request(a) /\ a.plan = plan /\ a.at = at
        /\ a.status = c.status /\ a.overtaken = c.overtaken
    BY <2>2, <2>4 DEF Request
  <2>6. PICK p : p = [plan EXCEPT !.pk = NewKey(plan)]
    OBVIOUS
  <2>7. /\ Plan(p) /\ p.error = plan.error /\ p.op = plan.op /\ p.table = plan.table
        /\ p.pk = NewKey(plan)
    BY <1>1, <2>6 DEF Plan
  <2>8. PICK b : b = [a EXCEPT !.plan = p]
    OBVIOUS
  <2>9. /\ Request(b) /\ b.plan = p /\ b.at = at
        /\ b.status = c.status /\ b.overtaken = c.overtaken
    BY <2>5, <2>8 DEF Request
  <2>10. call'[s] = b
    BY <1>2, <2>1, <2>3, <2>4, <2>5, <2>6, <2>8
  <2>11. at \in {"stored", "idle"}
    BY <2>3
  <2>12. Sound(p)
    BY <1>1, <2>7 DEF Sound
  <2>13. c.at = "checked" /\ c.status # 500 /\ c.status \in Status /\ c.overtaken \in BOOLEAN
    BY <2>1, <2>2 DEF CallOK, Commit
  <2>14. ASSUME at = "stored", ~c.overtaken PROVE Present(p)'
    <3>1. Needed(plan) /\ plan.op # "delete" /\ rows'[plan.table] = Written(plan)
      BY <1>1, <1>2, <2>2, <2>3, <2>13, <2>14 DEF CallOK, Refreshes, Sound
    <3>2. CASE plan.op = "keep"
      BY <2>7, <3>1, <3>2 DEF Needed, Present, Written, NewKey
    <3>3. CASE plan.op # "keep"
      <4>1. PICK r : r = [pk |-> NewKey(plan), key |-> plan.key, role |-> plan.role]
        OBVIOUS
      <4>2. r \in rows'[plan.table] /\ r.pk = NewKey(plan)
        BY <3>1, <3>3, <4>1 DEF Written
      <4> QED
        BY <2>7, <4>2 DEF Present
    <3> QED
      BY <3>2, <3>3
  <2> QED
    BY <2>7, <2>9, <2>10, <2>11, <2>12, <2>13, <2>14 DEF CallOK
<1>4. ASSUME NEW t \in Session, t # s
      PROVE  CallOK(call[t])'
  <2>1. PICK c : c = call[t]
    OBVIOUS
  <2>2. Request(c) /\ CallOK(c)
    BY <2>1, CallParts
  <2> DEFINE late == c.overtaken \/ Overtakes(plan, c)
  <2>3. late \in BOOLEAN
    OBVIOUS
  <2>4. PICK b : b = [c EXCEPT !.overtaken = late]
    OBVIOUS
  <2>5. call'[t] = b
    BY <1>2, <1>4, <2>1, <2>4
  <2> HIDE DEF late
  <2>6. Request(b) /\ b.plan = c.plan /\ b.at = c.at /\ b.status = c.status /\ b.overtaken = late
    BY <2>2, <2>4 DEF Request
  <2>7. ASSUME b.at = "checked", ~late
        PROVE  Needed(b.plan)'
    <3>1. ~c.overtaken /\ c.plan.table # plan.table
      BY <2>6, <2>7 DEF late, Overtakes
    <3>2. Needed(c.plan)
      BY <2>2, <2>6, <2>7, <3>1 DEF CallOK
    <3>3. rows'[c.plan.table] = rows[c.plan.table]
      BY <1>2, <2>2, <2>6, <2>7, <3>1 DEF CallOK, Sound
    <3>4. Needed(c.plan)'
      BY <3>2, <3>3 DEF Needed, Used, Present, Refused, Taken
    <3> QED
      BY <2>6, <3>4 DEF Needed, Used, Present, Refused, Taken
  <2>8. ASSUME b.at = "stored", ~late
        PROVE  Present(b.plan)'
    <3>1. ~c.overtaken /\ c.plan.table # plan.table
      BY <2>6, <2>8 DEF late, Overtakes
    <3>2. Present(c.plan)
      BY <2>2, <2>6, <2>8, <3>1 DEF CallOK
    <3>3. rows'[c.plan.table] = rows[c.plan.table]
      BY <1>2, <2>2, <2>6, <2>8, <3>1 DEF CallOK, Sound
    <3> QED
      BY <2>6, <3>2, <3>3 DEF Present
  <2>9. ~late => ~c.overtaken /\ c.at # "reading"
    BY DEF late, Overtakes
  <2>10. CallOK(b)'
    BY <2>2, <2>3, <2>6, <2>7, <2>8, <2>9 DEF CallOK
  <2> QED
    BY <2>5, <2>10 DEF CallOK
<1> QED
  BY <1>2, <1>3, <1>4 DEF CallInv

LEMMA CommitKeeps ==
    ASSUME IInv, NEW s \in Session, Commit(s)
    PROVE  IInv'
<1> DEFINE plan == call[s].plan
<1>1. /\ rows' = [rows EXCEPT ![plan.table] = Written(plan)] /\ DOMAIN rows = Table
      /\ lastId' \in {lastId, lastId + 1} /\ calls' = calls /\ lastId \in Nat
      /\ \A table \in Table : \A r \in rows[table] : DOMAIN r = {"pk", "key", "role"}
      /\ calls \in 0..MaxCalls
  BY DEF Commit, IInv, RowsType
<1> HIDE DEF plan
<1>2. \A r \in Written(plan) : r \in rows[plan.table] \/ DOMAIN r = {"pk", "key", "role"}
  BY DEF Written
<1>3. RowsType'
  BY <1>1, <1>2 DEF RowsType
<1>4. lastId' \in Nat /\ calls' \in 0..MaxCalls
  BY <1>1
<1> QED
  BY <1>3, <1>4, CommitKeepsUnique, CommitKeepsRaces, CommitKeepsCalls DEF IInv

LEMMA NextInv == IInv /\ [Next]_vars => IInv'
<1> SUFFICES ASSUME IInv, [Next]_vars PROVE IInv'
  OBVIOUS
<1>1. CASE UNCHANGED vars
  BY <1>1 DEF vars, IInv, RowsType, CallInv, CallOK, Needed, Used, Present, Refused, Taken, LinkedNow, Links,
              UniqueKeys, UniqueKeysOf, DuplicatesAreRaces
<1>2. ASSUME NEW s \in Session,
             Configure(s) \/ ManageAssets(s) \/ Commit(s) \/ IntegrityError(s) \/ Refresh(s)
      PROVE  IInv'
  BY <1>2, ConfigureKeeps, ManageAssetsKeeps, CommitKeeps, IntegrityErrorKeeps, RefreshKeeps
<1> QED
  BY <1>1, <1>2 DEF Next

--------------------------------------------------------------------------
(* Theorems *)

\* Every request that nobody overtook still has its reason to write.
THEOREM InductiveInvariant == Spec => []IInv
BY InitInv, NextInv, PTL DEF Spec

\* Rows, ids and requests keep their types, whatever the routes are asked.
THEOREM TypeCorrect == Spec => []TypeOK
BY InvTypes, InductiveInvariant, PTL

\* However many requests interleave, the duplicate checks of the services and the unique
\* indexes of the migrations keep every key unique, renames included.
THEOREM KeysStayUnique == Spec => []UniqueKeys
<1>1. IInv => UniqueKeys
  BY DEF IInv
<1> QED
  BY <1>1, InductiveInvariant, PTL

\* A relationship of two assets is stored twice only by a writer that another write of
\* the table overtook between its check and its commit: create_relationship has no other hole.
THEOREM DuplicatesNeedARace == Spec => []DuplicatesAreRaces
<1>1. IInv => DuplicatesAreRaces
  BY DEF IInv
<1> QED
  BY <1>1, InductiveInvariant, PTL

\* The routes map every exception of their services, so a 500 is an index that refused or a
\* row that went away, and both need another writer, except for what no service checks: a
\* body its table does not take, and a team or a category renamed to a name in use.
THEOREM ServerErrorsNeedARace == Spec => []ServerErrorsExplained
<1>1. IInv => ServerErrorsExplained
  BY DEF IInv, CallInv, CallOK, Unchecked, ServerErrorsExplained
<1> QED
  BY <1>1, InductiveInvariant, PTL

\* A request that reads suggestions is none of the requests a route takes.
LEMMA ServeOther ==
    ASSUME IInv, NEW s \in Session, call[s].at = "reading",
           NEW t \in Session, NEW roles, NEW plan, NEW caught, NEW success,
           Serve(t, roles, plan, caught, success)
    PROVE  call'[s] = call[s]
<1>1. t # s
  BY DEF Serve, Receive
<1>2. PICK c : call' = [call EXCEPT ![t] = c]
  BY DEF Serve
<1> QED
  BY <1>1, <1>2 DEF IInv, CallInv

\* Only its second read ends a suggestion, and a suggestion nobody overtook has still the
\* links of the moment.
LEMMA SuggestionStep ==
    ASSUME IInv, [Next]_vars, NEW s \in Session,
           call[s].at = "reading", call'[s].at = "idle", ~call[s].overtaken
    PROVE  call'[s].assets = Neighbours(LinkedNow(call[s].plan))
<1>1. CASE UNCHANGED vars
  BY <1>1 DEF vars
<1>4. ASSUME NEW t \in Session, Configure(t) PROVE call'[s] = call[s]
  <2>1. CASE add_team(t)
    BY <2>1, ServeOther DEF add_team
  <2>2. CASE edit_team(t)
    BY <2>2, ServeOther DEF edit_team
  <2>3. CASE add_team_member(t)
    BY <2>3, ServeOther DEF add_team_member
  <2>4. CASE remove_team_member(t)
    BY <2>4, ServeOther DEF remove_team_member
  <2>5. CASE add_team_schedule(t)
    BY <2>5, ServeOther DEF add_team_schedule
  <2>6. CASE remove_team_schedule(t)
    BY <2>6, ServeOther DEF remove_team_schedule
  <2>7. CASE add_policy(t)
    BY <2>7, ServeOther DEF add_policy
  <2>8. CASE edit_policy(t)
    BY <2>8, ServeOther DEF edit_policy
  <2>9. CASE add_category(t)
    BY <2>9, ServeOther DEF add_category
  <2>10. CASE edit_category(t)
    BY <2>10, ServeOther DEF edit_category
  <2>11. CASE add_subcategory(t)
    BY <2>11, ServeOther DEF add_subcategory
  <2>12. CASE edit_subcategory(t)
    BY <2>12, ServeOther DEF edit_subcategory
  <2>13. CASE register_user(t)
    BY <2>13, ServeOther DEF register_user
  <2> QED
    BY <1>4, <2>1, <2>2, <2>3, <2>4, <2>5, <2>6, <2>7, <2>8, <2>9, <2>10, <2>11, <2>12, <2>13 DEF Configure
<1>5. ASSUME NEW t \in Session, ManageAssets(t), ~suggest_affected_assets(t) PROVE call'[s] = call[s]
  <2>1. CASE add_asset(t)
    BY <2>1, ServeOther DEF add_asset
  <2>2. CASE edit_asset(t)
    BY <2>2, ServeOther DEF edit_asset
  <2>3. CASE add_relationship(t)
    BY <2>3, ServeOther DEF add_relationship
  <2>4. CASE remove_relationship(t)
    BY <2>4, ServeOther DEF remove_relationship
  <2>5. CASE add_ticket_asset(t)
    BY <2>5, ServeOther DEF add_ticket_asset
  <2>6. CASE remove_ticket_asset(t)
    BY <2>6, ServeOther DEF remove_ticket_asset
  <2>7. CASE read_affected_asset_suggestions(t)
    <3>1. t # s
      BY <2>7 DEF read_affected_asset_suggestions, Receive
    <3>2. PICK c : call' = [call EXCEPT ![t] = c]
      BY <2>7 DEF read_affected_asset_suggestions
    <3> QED
      BY <3>1, <3>2 DEF IInv, CallInv
  <2> QED
    BY <1>5, <2>1, <2>2, <2>3, <2>4, <2>5, <2>6, <2>7 DEF ManageAssets
<1>6. ASSUME NEW t \in Session, suggest_affected_assets(t)
      PROVE  call'[s].assets = Neighbours(LinkedNow(call[s].plan))
  <2>1. PICK c : c = call[s]
    OBVIOUS
  <2>2. Request(c) /\ c.assets = LinkedNow(c.plan)
    BY <2>1 DEF IInv, CallInv, CallOK
  <2>3. CASE t = s
    <3>1. PICK a : a = [c EXCEPT !.at = "idle"]
      OBVIOUS
    <3>2. Request(a) /\ a.assets = c.assets
      BY <2>2, <3>1 DEF Request
    <3>3. PICK b : b = [a EXCEPT !.assets = Neighbours(a.assets)]
      OBVIOUS
    <3>4. b.assets = Neighbours(c.assets)
      BY <3>2, <3>3 DEF Request
    <3>5. call'[s] = b
      BY <1>6, <2>1, <2>3, <2>2, <3>1, <3>2, <3>3
         DEF suggest_affected_assets, Request, IInv, CallInv
    <3> QED
      BY <2>1, <2>2, <3>4, <3>5
  <2>4. CASE t # s
    <3>1. call'[s] = call[s]
      BY <1>6, <2>4 DEF suggest_affected_assets, IInv, CallInv
    <3> QED
      BY <3>1
  <2> QED
    BY <2>3, <2>4
<1>7. ASSUME NEW t \in Session, IntegrityError(t) \/ Refresh(t) PROVE FALSE
  <2>1. call[t].at \in {"checked", "stored"} /\ t # s
    BY <1>7 DEF IntegrityError, Refresh
  <2>2. call'[s] = call[s]
    BY <1>7, <2>1 DEF IntegrityError, Refresh, IInv, CallInv
  <2> QED
    BY <2>2
<1>8. ASSUME NEW t \in Session, Commit(t) PROVE FALSE
  <2>1. t # s
    BY <1>8 DEF Commit
  <2>2. PICK c : c = call[s]
    OBVIOUS
  <2>3. PICK late : late = (c.overtaken \/ Overtakes(call[t].plan, c))
    OBVIOUS
  <2>4. call'[s] = [c EXCEPT !.overtaken = late]
    BY <1>8, <2>1, <2>2, <2>3 DEF Commit
  <2>5. Request(c)
    BY <2>2, CallParts
  <2>6. [c EXCEPT !.overtaken = late].at = c.at
    BY <2>5 DEF Request
  <2> QED
    BY <2>2, <2>4, <2>6
<1> QED
  BY <1>1, <1>4, <1>5, <1>6, <1>7, <1>8 DEF Next

\* What suggest_affected_assets computes in two unions is one hop in either direction.
LEMMA NeighboursFacts ==
    ASSUME NEW linked, NEW asset
    PROVE  asset \in Neighbours(linked) <=>
             /\ asset \notin linked
             /\ \E r \in rows["relationship"], other \in linked :
                  {r.key[1], r.key[2]} = {asset, other}
<1>1. ASSUME asset \notin linked, NEW r \in rows["relationship"], NEW other \in linked
      PROVE  {r.key[1], r.key[2]} = {asset, other} <=>
               \/ r.key[1] = asset /\ r.key[2] = other
               \/ r.key[2] = asset /\ r.key[1] = other
  BY <1>1
<1> QED
  BY <1>1 DEF Neighbours

\* The impact suggestions of suggest_affected_assets are exactly the assets one relationship
\* away, in either direction, whatever is linked and related while other requests run.
THEOREM SuggestionsAlwaysExact == Spec => SuggestionsExact
<1>1. ASSUME IInv, [Next]_vars, NEW s \in Session,
             call[s].at = "reading", call'[s].at = "idle", ~call[s].overtaken
      PROVE  LET linked == {r.key[2] : r \in Links(call[s].plan.key[1])}
             IN \A asset \in Id("asset") :
                  asset \in call'[s].assets <=>
                    /\ asset \notin linked
                    /\ \E r \in rows["relationship"], other \in linked :
                         {r.key[1], r.key[2]} = {asset, other}
  <2>1. call'[s].assets = Neighbours(LinkedNow(call[s].plan))
    BY <1>1, SuggestionStep
  <2>2. PICK linked : linked = LinkedNow(call[s].plan)
    OBVIOUS
  <2>3. linked = {r.key[2] : r \in Links(call[s].plan.key[1])}
    BY <2>2 DEF LinkedNow
  <2>4. \A asset \in Id("asset") :
          asset \in call'[s].assets <=>
            /\ asset \notin linked
            /\ \E r \in rows["relationship"], other \in linked :
                 {r.key[1], r.key[2]} = {asset, other}
    <3>1. call'[s].assets = Neighbours(linked)
      BY <2>1, <2>2
    <3>2. ASSUME NEW asset
          PROVE  asset \in Neighbours(linked) <=>
                   /\ asset \notin linked
                   /\ \E r \in rows["relationship"], other \in linked :
                        {r.key[1], r.key[2]} = {asset, other}
      BY NeighboursFacts
    <3> QED
      BY <3>1, <3>2
  <2> QED
    BY <2>3, <2>4, Zenon
<1> DEFINE Exact ==
      \A s \in Session :
        call[s].at = "reading" /\ call'[s].at = "idle" /\ ~call[s].overtaken =>
          LET linked == {r.key[2] : r \in Links(call[s].plan.key[1])}
          IN \A asset \in Id("asset") :
               asset \in call'[s].assets <=>
                 /\ asset \notin linked
                 /\ \E r \in rows["relationship"], other \in linked :
                      {r.key[1], r.key[2]} = {asset, other}
<1>2. IInv /\ [Next]_vars => Exact
  BY <1>1
<1>3. SuggestionsExact <=> [][Exact]_vars
  BY DEF SuggestionsExact
<1> HIDE DEF Exact
<1> QED
  BY <1>2, <1>3, InductiveInvariant, PTL DEF Spec
=============================================================================
