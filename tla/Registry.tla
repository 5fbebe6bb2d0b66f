------------------------------ MODULE Registry ------------------------------
(***************************************************************************)
(* The reference tables of the desk: teams, their members and schedules,   *)
(* SLA policies, categories, users, assets, their relationships and their  *)
(* links to tickets.  Every writer follows one protocol: a request reads   *)
(* (is the name taken, does the team exist), and in a later step flushes   *)
(* and commits what it decided.  Requests of other sessions run in between.*)
(* Most tables also have a unique index, which turns the late writer into  *)
(* an IntegrityError that no controller catches; asset relationships have  *)
(* none.                                                                   *)
(*                                                                         *)
(* The operators named as the services return what the service decides, an *)
(* exception or one row to write; the actions named as the routes say who  *)
(* may call them and which exception becomes which HTTP status.            *)
(***************************************************************************)
EXTENDS Integers, Sequences

CONSTANTS Session,    \* request handlers that run at the same time
          Ticket, Name, Email, Weekday, Priority, Serial, Kind,   \* inputs
          Seed,       \* the rows there are before the first request
          Drawn,      \* the last id the seeded rows use
          MaxCalls,   \* bound: requests in a behaviour
          None        \* SQL NULL, no exception

VARIABLES rows,     \* table -> its rows
          lastId,   \* the last id drawn from the sequences
          call,     \* session -> its request
          calls,    \* requests so far (bounded by MaxCalls)
          raced     \* ghost: keys of the rows whose writer was overtaken

vars == <<rows, lastId, call, calls, raced>>

Table == {"team", "membership", "schedule", "policy", "category",
          "subcategory", "user", "asset", "relationship", "ticketasset"}

\* Tables with a unique index or a natural primary key.
Indexed == Table \ {"subcategory", "relationship"}

\* pk: primary key; key: what is looked up before a write; role: of a user.  The
\* other columns (descriptions, minutes, references) are not told apart.
\* A NULL serial number is in nobody's way.
Clash(r, q) == r.pk # q.pk /\ r.key = q.key /\ r.key # <<None>>

UniqueKeysOf(table, content) ==
  \A r, q \in content : table \in Indexed => ~Clash(r, q)

\* What the services raise.
Error ==
  {"TeamNotFound", "DuplicateTeamName", "InvalidTeamMember", "MembershipAlreadyExists",
   "MembershipNotFound", "ScheduleNotFound", "DuplicateScheduleDay", "SLAPolicyNotFound",
   "DuplicateSLAPolicy", "CategoryNotFound", "DuplicateCategoryName", "SubcategoryNotFound",
   "EmailAlreadyExists", "RoleNotFound", "AssetNotFound", "DuplicateSerialNumber",
   "InvalidResponsible", "RelationshipNotFound", "DuplicateRelationship", "TicketNotFound",
   "LinkNotFound", "DuplicateLink"}

ASSUME SeedAssumption ==
  /\ DOMAIN Seed = Table
  /\ \A table \in Table :
       /\ \A r \in Seed[table] : DOMAIN r = {"pk", "key", "role"}
       /\ UniqueKeysOf(table, Seed[table])
  /\ Seed["relationship"] = {}
  /\ Drawn \in Nat /\ MaxCalls \in Nat
  /\ None \notin Error

Admin == {"admin"}
Staff == {"admin", "tecnico"}
Role  == {"admin", "tecnico", "solicitante"}

Used(table, key) == \E r \in rows[table] : r.key = key
Stored(table, id) == \E r \in rows[table] : r.pk = <<id>>

(***************************************************************************)
(* What a service decides.                                                 *)
(***************************************************************************)
Raise(error) ==
  [error |-> error, op |-> "none", table |-> "none", pk |-> <<>>, key |-> <<>>, role |-> None]
Insert(table, key, role) ==
  [error |-> None, op |-> "insert", table |-> table, pk |-> <<>>, key |-> key, role |-> role]
Keep(table, id) ==
  [error |-> None, op |-> "keep", table |-> table, pk |-> <<id>>, key |-> <<>>, role |-> None]
\* A body that its schema takes and the table does not: an explicit null for a NOT NULL
\* column, or minutes of more than 32 bits.  (fits is FALSE of such a body.)
Unfit(table, id) == [Keep(table, id) EXCEPT !.op = "unfit"]
\* An UPDATE names the columns that differ from what was loaded, and no others.
Change(table, id, key, fits) ==
  IF ~fits THEN Unfit(table, id)
  ELSE IF \E r \in rows[table] : r.pk = <<id>> /\ r.key = key THEN Keep(table, id)
  ELSE [Keep(table, id) EXCEPT !.op = "update", !.key = key]
Delete(table, pk) ==
  [error |-> None, op |-> "delete", table |-> table, pk |-> pk, key |-> <<>>, role |-> None]
\* A suggestion writes nothing.
Suggest(ticket) ==
  [error |-> None, op |-> "suggest", table |-> "none", pk |-> <<>>, key |-> <<ticket>>, role |-> None]

create_team(name) ==
  IF Used("team", <<name>>) THEN Raise("DuplicateTeamName")
  ELSE Insert("team", <<name>>, None)

\* No look for another team of that name.
update_team(id, name, fits) ==
  IF Stored("team", id) THEN Change("team", id, <<name>>, fits)
  ELSE Raise("TeamNotFound")

Technicians == {u \in rows["user"] : u.role = "tecnico"}

add_member(team, user) ==
  IF ~Stored("team", team) THEN Raise("TeamNotFound")
  ELSE IF \A u \in Technicians : u.pk # <<user>> THEN Raise("InvalidTeamMember")
  ELSE IF Used("membership", <<team, user>>) THEN Raise("MembershipAlreadyExists")
  ELSE Insert("membership", <<team, user>>, None)

remove_member(team, user) ==
  IF Used("membership", <<team, user>>) THEN Delete("membership", <<team, user>>)
  ELSE Raise("MembershipNotFound")

add_schedule_entry(team, weekday) ==
  IF ~Stored("team", team) THEN Raise("TeamNotFound")
  ELSE IF Used("schedule", <<team, weekday>>) THEN Raise("DuplicateScheduleDay")
  ELSE Insert("schedule", <<team, weekday>>, None)

remove_schedule_entry(team, id) ==
  IF \E r \in rows["schedule"] : r.pk = <<id>> /\ r.key[1] = team
  THEN Delete("schedule", <<id>>)
  ELSE Raise("ScheduleNotFound")

create_policy(priority, fits) ==
  IF Used("policy", <<priority>>) THEN Raise("DuplicateSLAPolicy")
  ELSE IF ~fits THEN Unfit("policy", lastId + 1)
  ELSE Insert("policy", <<priority>>, None)

\* Only the minutes of a policy can be edited, never its priority.
update_policy(id, fits) ==
  IF ~Stored("policy", id) THEN Raise("SLAPolicyNotFound")
  ELSE IF fits THEN Keep("policy", id) ELSE Unfit("policy", id)

create_category(name, team) ==
  IF Used("category", <<name>>) THEN Raise("DuplicateCategoryName")
  ELSE IF team # None /\ ~Stored("team", team) THEN Raise("TeamNotFound")
  ELSE Insert("category", <<name>>, None)

\* No look for another category of that name.
update_category(id, name, team, fits) ==
  IF ~Stored("category", id) THEN Raise("CategoryNotFound")
  ELSE IF team # None /\ ~Stored("team", team) THEN Raise("TeamNotFound")
  ELSE Change("category", id, <<name>>, fits)

create_subcategory(name, category) ==
  IF Stored("category", category) THEN Insert("subcategory", <<name>>, None)
  ELSE Raise("CategoryNotFound")

update_subcategory(id, name, category, fits) ==
  IF ~Stored("subcategory", id) THEN Raise("SubcategoryNotFound")
  ELSE IF ~Stored("category", category) THEN Raise("CategoryNotFound")
  ELSE Change("subcategory", id, <<name>>, fits)

create_user(email, role) ==
  IF Used("user", <<email>>) THEN Raise("EmailAlreadyExists")
  ELSE IF role \notin Role THEN Raise("RoleNotFound")
  ELSE Insert("user", <<email>>, role)

\* The system user exists and is inactive.
Active(user) == \E u \in rows["user"] : u.pk = <<user>> /\ u.role \in Role

create_asset(serial, user) ==
  IF serial # None /\ Used("asset", <<serial>>) THEN Raise("DuplicateSerialNumber")
  ELSE IF user # None /\ ~Active(user) THEN Raise("InvalidResponsible")
  ELSE Insert("asset", <<serial>>, None)

update_asset(id, serial, user, fits) ==
  IF ~Stored("asset", id) THEN Raise("AssetNotFound")
  ELSE IF serial # None /\ \E r \in rows["asset"] : r.key = <<serial>> /\ r.pk # <<id>>
  THEN Raise("DuplicateSerialNumber")
  ELSE IF user # None /\ ~Active(user) THEN Raise("InvalidResponsible")
  ELSE Change("asset", id, <<serial>>, fits)

\* Fault: no look for the same relationship.
create_relationship_unchecked(from, to, kind) ==
  IF ~(Stored("asset", from) /\ Stored("asset", to)) THEN Raise("AssetNotFound")
  ELSE Insert("relationship", <<from, to, kind>>, None)

create_relationship(from, to, kind) ==
  IF ~(Stored("asset", from) /\ Stored("asset", to)) THEN Raise("AssetNotFound")
  ELSE IF Used("relationship", <<from, to, kind>>) THEN Raise("DuplicateRelationship")
  ELSE Insert("relationship", <<from, to, kind>>, None)

delete_relationship(id) ==
  IF Stored("relationship", id) THEN Delete("relationship", <<id>>)
  ELSE Raise("RelationshipNotFound")

\* Fault: left to the unique index to refuse the second link.
link_asset_unchecked(ticket, asset) ==
  IF ticket \notin Ticket THEN Raise("TicketNotFound")
  ELSE IF ~Stored("asset", asset) THEN Raise("AssetNotFound")
  ELSE Insert("ticketasset", <<ticket, asset>>, None)

link_asset(ticket, asset) ==
  IF ticket \notin Ticket THEN Raise("TicketNotFound")
  ELSE IF ~Stored("asset", asset) THEN Raise("AssetNotFound")
  ELSE IF Used("ticketasset", <<ticket, asset>>) THEN Raise("DuplicateLink")
  ELSE Insert("ticketasset", <<ticket, asset>>, None)

Links(ticket) == {r \in rows["ticketasset"] : r.key[1] = ticket}

unlink_asset(ticket, asset) ==
  LET found == {r \in Links(ticket) : r.key[2] = asset}
  IN IF found = {} THEN Raise("LinkNotFound")
     ELSE Delete("ticketasset", (CHOOSE r \in found : TRUE).pk)

\* Fault: follows the relationships in their direction only.
NeighboursOneWay(linked) ==
  {r.key[2] : r \in {q \in rows["relationship"] : q.key[1] \in linked}} \ linked

\* One hop along the relationships, in both directions, from what is linked.
Neighbours(linked) ==
  ({r.key[2] : r \in {q \in rows["relationship"] : q.key[1] \in linked}}
     \cup {r.key[1] : r \in {q \in rows["relationship"] : q.key[2] \in linked}}) \ linked

(***************************************************************************)
(* Requests.                                                               *)
(***************************************************************************)
Idle == [at |-> "idle", plan |-> Raise(None), status |-> 0, overtaken |-> FALSE, assets |-> {}]

\* The plan stays beside the answer for the properties to read.
Answer(plan, status) == [Idle EXCEPT !.plan = plan, !.status = status]

Init ==
  /\ rows = Seed
  /\ lastId = Drawn
  /\ call = [s \in Session |-> Idle]
  /\ calls = 0
  /\ raced = {}

Receive(s) ==
  /\ call[s].at = "idle" /\ calls < MaxCalls
  /\ calls' = calls + 1
  /\ UNCHANGED <<rows, lastId, raced>>

\* Fault: goes on to the commit after an exception of the service.
ServeSwallowing(s, roles, plan, caught, success) ==
  /\ Receive(s)
  /\ \E role \in Role : call' = [call EXCEPT ![s] =
       IF role \notin roles THEN Answer(Raise(None), 403)
       ELSE [Idle EXCEPT !.at = "checked", !.plan = plan, !.status = success]]

\* A route: who may call it, what the service decides, the exceptions it maps.
Serve(s, roles, plan, caught, success) ==
  /\ Receive(s)
  /\ \E role \in Role : call' = [call EXCEPT ![s] =
       IF role \notin roles THEN Answer(Raise(None), 403)
       ELSE IF plan.error = None
       THEN [Idle EXCEPT !.at = "checked", !.plan = plan, !.status = success]
       ELSE Answer(plan, IF plan.error \in DOMAIN caught THEN caught[plan.error] ELSE 500)]

\* The ids a path or a body may name: those in use, and one that is not.
Id(table) == {r.pk[1] : r \in rows[table]} \cup {0}

add_team(s) == \E name \in Name :
  Serve(s, Admin, create_team(name), [DuplicateTeamName |-> 409], 201)

edit_team(s) == \E id \in Id("team"), name \in Name, fits \in BOOLEAN :
  Serve(s, Admin, update_team(id, name, fits), [TeamNotFound |-> 404], 200)

add_team_member(s) == \E team \in Id("team"), user \in Id("user") :
  Serve(s, Admin, add_member(team, user),
        [TeamNotFound |-> 404, InvalidTeamMember |-> 422, MembershipAlreadyExists |-> 409], 204)

remove_team_member(s) == \E team \in Id("team"), user \in Id("user") :
  Serve(s, Admin, remove_member(team, user), [MembershipNotFound |-> 404], 204)

add_team_schedule(s) == \E team \in Id("team"), weekday \in Weekday :
  Serve(s, Admin, add_schedule_entry(team, weekday),
        [TeamNotFound |-> 404, DuplicateScheduleDay |-> 409], 201)

remove_team_schedule(s) == \E team \in Id("team"), id \in Id("schedule") :
  Serve(s, Admin, remove_schedule_entry(team, id), [ScheduleNotFound |-> 404], 204)

add_policy(s) == \E priority \in Priority, fits \in BOOLEAN :
  Serve(s, Admin, create_policy(priority, fits), [DuplicateSLAPolicy |-> 409], 201)

edit_policy(s) == \E id \in Id("policy"), fits \in BOOLEAN :
  Serve(s, Admin, update_policy(id, fits), [SLAPolicyNotFound |-> 404], 200)

add_category(s) == \E name \in Name, team \in Id("team") \cup {None} :
  Serve(s, Admin, create_category(name, team),
        [DuplicateCategoryName |-> 409, TeamNotFound |-> 422], 201)

edit_category(s) ==
  \E id \in Id("category"), name \in Name, team \in Id("team") \cup {None}, fits \in BOOLEAN :
    Serve(s, Admin, update_category(id, name, team, fits),
          [CategoryNotFound |-> 404, TeamNotFound |-> 422], 200)

add_subcategory(s) == \E name \in Name, category \in Id("category") :
  Serve(s, Admin, create_subcategory(name, category), [CategoryNotFound |-> 422], 201)

edit_subcategory(s) ==
  \E id \in Id("subcategory"), name \in Name, category \in Id("category"), fits \in BOOLEAN :
    Serve(s, Admin, update_subcategory(id, name, category, fits),
          [SubcategoryNotFound |-> 404, CategoryNotFound |-> 422], 200)

register_user(s) == \E email \in Email, role \in Role \cup {"gerente"} :
  Serve(s, Admin, create_user(email, role),
        [EmailAlreadyExists |-> 409, RoleNotFound |-> 422], 201)

add_asset(s) == \E serial \in Serial \cup {None}, user \in Id("user") \cup {None} :
  Serve(s, Staff, create_asset(serial, user),
        [DuplicateSerialNumber |-> 409, InvalidResponsible |-> 422], 201)

edit_asset(s) ==
  \E id \in Id("asset"), serial \in Serial \cup {None}, user \in Id("user") \cup {None},
     fits \in BOOLEAN :
    Serve(s, Staff, update_asset(id, serial, user, fits),
          [AssetNotFound |-> 404, DuplicateSerialNumber |-> 409, InvalidResponsible |-> 422], 200)

add_relationship(s) == \E from, to \in Id("asset"), kind \in Kind :
  Serve(s, Staff, create_relationship(from, to, kind),
        [AssetNotFound |-> 422, DuplicateRelationship |-> 409], 201)

remove_relationship(s) == \E id \in Id("relationship") :
  Serve(s, Staff, delete_relationship(id), [RelationshipNotFound |-> 404], 204)

add_ticket_asset(s) == \E ticket \in Ticket \cup {0}, asset \in Id("asset") :
  Serve(s, Staff, link_asset(ticket, asset),
        [TicketNotFound |-> 404, AssetNotFound |-> 422, DuplicateLink |-> 409], 201)

remove_ticket_asset(s) == \E ticket \in Ticket, asset \in Id("asset") :
  Serve(s, Staff, unlink_asset(ticket, asset), [LinkNotFound |-> 404], 204)

\* suggest_affected_assets reads the links first ...
read_affected_asset_suggestions(s) ==
  /\ Receive(s)
  /\ \E ticket \in Ticket \cup {0}, role \in Role : call' = [call EXCEPT ![s] =
       IF role \notin Staff THEN Answer(Raise(None), 403)
       ELSE IF ticket \notin Ticket THEN Answer(Raise("TicketNotFound"), 404)
       ELSE [Answer(Suggest(ticket), 200) EXCEPT
               !.at = "reading", !.assets = {r.key[2] : r \in Links(ticket)}]]

\* ... and then the relationships of what it found.
suggest_affected_assets(s) ==
  /\ call[s].at = "reading"
  /\ call' = [call EXCEPT ![s].at = "idle", ![s].assets = Neighbours(@)]
  /\ UNCHANGED <<rows, lastId, calls, raced>>

(***************************************************************************)
(* The end of a write: flush and commit, then the refresh of the object.   *)
(***************************************************************************)
Taken(plan) ==
  \E r \in rows[plan.table] : r.key = plan.key /\ (plan.op = "insert" \/ r.pk # plan.pk)

\* Fault: the migration forgot the unique index of the schedules.
RefusedUnindexed(plan) ==
  \/ plan.op = "unfit"
  \/ /\ plan.op \in {"insert", "update"} /\ plan.table \in Indexed \ {"schedule"} /\ plan.key # <<None>>
     /\ Taken(plan)

\* The columns and the unique indexes refuse what no service has checked.
Refused(plan) ==
  \/ plan.op = "unfit"
  \/ /\ plan.op \in {"insert", "update"} /\ plan.table \in Indexed /\ plan.key # <<None>>
     /\ Taken(plan)

\* IntegrityError, or DataError of a number out of range: no controller catches it.
IntegrityError(s) ==
  /\ call[s].at = "checked" /\ Refused(call[s].plan)
  /\ call' = [call EXCEPT ![s].at = "idle", ![s].status = 500]
  /\ UNCHANGED <<rows, lastId, calls, raced>>

NewKey(plan) ==
  IF plan.op # "insert" THEN plan.pk
  ELSE IF plan.table = "membership" THEN plan.key ELSE <<lastId + 1>>

Written(plan) ==
  IF plan.op = "keep" THEN rows[plan.table] ELSE
  {r \in rows[plan.table] : r.pk # plan.pk}
    \cup (IF plan.op = "delete" THEN {}
          ELSE {[pk |-> NewKey(plan), key |-> plan.key, role |-> plan.role]})

\* A DELETE that finds its row gone is only a warning.
Refreshes(plan) == plan.op # "delete" /\ plan.table # "membership"

\* The requests whose reads this write makes stale.
Overtakes(plan, c) == c.at = "reading" \/ (c.at # "idle" /\ c.plan.table = plan.table)

Commit(s) == LET plan == call[s].plan IN
  /\ call[s].at = "checked" /\ ~Refused(plan)
  /\ rows' = [rows EXCEPT ![plan.table] = Written(plan)]
  /\ lastId' = IF NewKey(plan) = <<lastId + 1>> THEN lastId + 1 ELSE lastId
  /\ raced' = IF call[s].overtaken THEN raced \cup {NewKey(plan)} ELSE raced
  /\ call' = [t \in Session |->
       IF t = s THEN [call[s] EXCEPT !.at = IF Refreshes(plan) THEN "stored" ELSE "idle",
                                     !.plan.pk = NewKey(plan)]
       ELSE [call[t] EXCEPT !.overtaken = @ \/ Overtakes(plan, call[t])]]
  /\ UNCHANGED calls

Refresh(s) == LET plan == call[s].plan IN
  /\ call[s].at = "stored"
  /\ call' = [call EXCEPT ![s].at = "idle", ![s].status =
       IF \E r \in rows[plan.table] : r.pk = plan.pk THEN @ ELSE 500]
  /\ UNCHANGED <<rows, lastId, calls, raced>>

Configure(s) ==
  \/ add_team(s) \/ edit_team(s) \/ add_team_member(s) \/ remove_team_member(s)
  \/ add_team_schedule(s) \/ remove_team_schedule(s) \/ add_policy(s) \/ edit_policy(s)
  \/ add_category(s) \/ edit_category(s) \/ add_subcategory(s) \/ edit_subcategory(s)
  \/ register_user(s)

ManageAssets(s) ==
  \/ add_asset(s) \/ edit_asset(s) \/ add_relationship(s) \/ remove_relationship(s)
  \/ add_ticket_asset(s) \/ remove_ticket_asset(s)
  \/ read_affected_asset_suggestions(s) \/ suggest_affected_assets(s)

Next == \E s \in Session :
  Configure(s) \/ ManageAssets(s) \/ Commit(s) \/ IntegrityError(s) \/ Refresh(s)

Spec == Init /\ [][Next]_vars

(***************************************************************************)
(* Properties                                                              *)
(***************************************************************************)
\* Types: the tables hold rows, a request is at one of its four places.
TypeOK ==
  /\ DOMAIN rows = Table
  /\ \A table \in Table : \A r \in rows[table] : DOMAIN r = {"pk", "key", "role"}
  /\ lastId \in Nat /\ calls \in 0..MaxCalls
  /\ \A s \in Session :
       /\ call[s].at \in {"idle", "checked", "stored", "reading"}
       /\ call[s].status \in {0, 200, 201, 204, 403, 404, 409, 422, 500}
       /\ call[s].overtaken \in BOOLEAN
       /\ call[s].at \in {"checked", "stored"} =>
            call[s].plan.error = None /\ call[s].plan.table \in Table

\* Whatever requests interleave, no team, member, schedule day, policy, category, user,
\* serial number or ticket link is there twice: what every duplicate check of the
\* services is for, and what the lookups by name and by key rely on.
UniqueKeys == \A table \in Table : UniqueKeysOf(table, rows[table])

\* The one checked table without an index: a relationship is there twice only if its
\* second writer was overtaken between its check and its commit.
DuplicatesAreRaces ==
  \A r, q \in rows["relationship"] :
    r.key = q.key /\ r.pk # q.pk => {r.pk, q.pk} \cap raced # {}

\* A request that no other write of its table overtook is answered with a server error
\* only because of what nothing checks: a body that the table does not take, or a team or
\* a category renamed to a name in use.
ServerErrorsExplained ==
  \A s \in Session :
    call[s].status = 500 /\ ~call[s].overtaken =>
      \/ call[s].plan.op = "unfit"
      \/ call[s].plan.op = "update" /\ call[s].plan.table \in {"team", "category"}

\* The impact suggestions of a request that saw one state of the links are the assets one
\* relationship away, in either direction, without those already linked to the ticket.
SuggestionsExact ==
  [][\A s \in Session :
       call[s].at = "reading" /\ call'[s].at = "idle" /\ ~call[s].overtaken =>
         LET linked == {r.key[2] : r \in Links(call[s].plan.key[1])}
         IN \A asset \in Id("asset") :
              asset \in call'[s].assets <=>
                /\ asset \notin linked
                /\ \E r \in rows["relationship"], other \in linked :
                     {r.key[1], r.key[2]} = {asset, other}]_vars
=============================================================================
