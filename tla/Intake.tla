------------------------------- MODULE Intake -------------------------------
(***************************************************************************)
(* How tickets come in: opened directly or from an item of the service     *)
(* catalog, whose form is validated and whose answers are stored, and then *)
(* passed through the triage rules.  Administrators edit rules, items and  *)
(* form fields meanwhile.  A request from the catalog validates its form,  *)
(* opens the ticket in a first commit, and stores item and answers in a    *)
(* second one.                                                             *)
(*                                                                         *)
(* Rows are kept by id; text is not told apart, except whether a ticket    *)
(* holds a rule's keyword and what kind of value an answer is.  The        *)
(* automatic approval that may follow is an action of TicketLifecycle.     *)
(***************************************************************************)
EXTENDS Integers, Sequences, FiniteSets, FiniteSetsExt

CONSTANTS Session,     \* request handlers that run at the same time
          User, Admin, Staff, Active, Vip,   \* the users, and who of them is what
          Team, Category, Subcategory,
          Default,     \* category -> its default [priority, team]
          Closed,      \* day -> the teams that are outside their hours then
          RuleInput, ItemInput, FieldInput,   \* inputs: rows to write
          TicketInput, CatalogInput,   \* inputs: a ticket to open, an item's form filled in
          Stock,       \* what there may be before the first request
          LastDay, MaxCalls,   \* bounds: days, requests in a behaviour
          None         \* SQL NULL, no exception

RuleColumns == {"order", "active", "category", "keyword", "outside", "priority", "team", "level"}
ItemColumns == {"category", "sub", "active", "approval"}
FieldColumns == {"item", "required", "kind"}
TicketColumns == {"requester", "category", "keyword", "priority", "team", "level", "status", "item",
                  "created", "resolved", "assignee", "verdict"}

Exceptions == {"CategoryNotFound", "SubcategoryMismatch", "TeamNotFound", "TriageRuleNotFound",
               "ServiceCatalogItemNotFound", "CatalogItemFieldNotFound", "ForbiddenTicketAccess",
               "InvalidRequester", "UnknownField", "MissingRequiredAnswer", "InvalidAnswerValue"}

VARIABLES rows,     \* "rule", "item", "field" -> their rows, by id
          lastId,   \* the last id drawn for them
          parent,   \* subcategory -> its category
          tickets,  \* the rows of ticket, by id; never deleted
          answers,  \* rows of ticketcataloganswer: [ticket, field, value]
          today,    \* the clock, in days
          call,     \* session -> its request
          calls     \* requests so far (bounded by MaxCalls)

intake == <<rows, lastId, parent, tickets, answers, today, call, calls>>

(***************************************************************************)
(* The rows of the tables.                                                 *)
(***************************************************************************)
\* Rules, items and form fields name rows that exist.
RowsOK(r) ==
  /\ DOMAIN r = {"rule", "item", "field"}
  /\ \A i \in DOMAIN r.rule : /\ DOMAIN r.rule[i] = RuleColumns /\ r.rule[i].order \in Int
                              /\ r.rule[i].category \in Category \cup {None}
                              /\ r.rule[i].team \in Team \cup {None}
  /\ \A i \in DOMAIN r.item : DOMAIN r.item[i] = ItemColumns /\ r.item[i].category \in Category
  /\ \A i \in DOMAIN r.field : DOMAIN r.field[i] = FieldColumns /\ r.field[i].item \in DOMAIN r.item

\* A ticket has somebody who asked for it, a category, a queue and, since a day, an outcome.
TicketOK(ticket, items, day) ==
  /\ DOMAIN ticket = TicketColumns
  /\ ticket.requester \in User /\ ticket.category \in Category
  /\ ticket.team \in Team \cup {None} /\ ticket.item \in {None} \cup items
  /\ ticket.created \in 0..day /\ ticket.resolved \in {None} \cup 0..day

\* The ids of some rows.
Drawn(r) == UNION {DOMAIN r[table] : table \in DOMAIN r}

\* Requests that came before have left their rows.
StockOK(stock) ==
  /\ RowsOK(stock.rows) /\ IsFiniteSet(Drawn(stock.rows)) /\ Drawn(stock.rows) \subseteq Nat \ {0}
  /\ stock.parent \in [Subcategory -> Category] /\ stock.today \in 0..LastDay
  /\ stock.tickets \in Seq({stock.tickets[t] : t \in DOMAIN stock.tickets})
  /\ \A t \in DOMAIN stock.tickets :
       TicketOK(stock.tickets[t], DOMAIN stock.rows.item, stock.today)
  /\ stock.calls \in 0..MaxCalls

ASSUME IntakeAssumption ==
  /\ Admin \subseteq Staff /\ Staff \subseteq User /\ Active \subseteq User /\ Vip \subseteq User
  /\ \A c \in Category : Default[c].team \in Team \cup {None}
  /\ LastDay \in Nat /\ MaxCalls \in Nat /\ DOMAIN Closed = 0..LastDay
  /\ None \notin User \cup Team \cup Category \cup Subcategory \cup Int \cup Exceptions
  /\ \A row \in RuleInput : DOMAIN row = RuleColumns /\ row.order \in Int
  /\ \A row \in ItemInput : DOMAIN row = ItemColumns
  /\ \A row \in FieldInput : DOMAIN row = FieldColumns
  /\ \A stock \in Stock : StockOK(stock)

Merge(row, data) == [c \in DOMAIN row |-> IF c \in DOMAIN data THEN data[c] ELSE row[c]]

(***************************************************************************)
(* Triage.                                                                 *)
(***************************************************************************)
Before(i, j) ==
  \/ rows.rule[i].order < rows.rule[j].order
  \/ rows.rule[i].order = rows.rule[j].order /\ i < j

\* list_rules: by execution order, then by id.
list_rules ==
  [n \in 1..Cardinality(DOMAIN rows.rule) |->
     CHOOSE i \in DOMAIN rows.rule :
       Cardinality({j \in DOMAIN rows.rule : Before(j, i)}) = n - 1]

\* A team without any window is outside its hours; a ticket without team never is.
_outside_hours_matches(ticket) == ticket.team # None /\ ticket.team \in Closed[today]

Matches(rule, ticket) ==
  /\ rule.active
  /\ rule.category \in {None, ticket.category}
  /\ rule.keyword => ticket.keyword
  /\ rule.outside => _outside_hours_matches(ticket)

Or(action, current) == IF action = None THEN current ELSE action

Act(ticket, rule) ==
  [ticket EXCEPT !.priority = Or(rule.priority, @), !.team = Or(rule.team, @),
                 !.level = Or(rule.level, @)]

Tried(ticket, rule) == IF Matches(rule, ticket) THEN Act(ticket, rule) ELSE ticket

\* Fault: every rule is matched with the ticket as it was opened.
triage_of_opened(ticket) ==
  LET after[n \in 0..Cardinality(DOMAIN rows.rule)] ==
        IF n = 0 THEN ticket
        ELSE LET rule == rows.rule[list_rules[n]]
             IN IF Matches(rule, ticket) THEN Act(after[n - 1], rule) ELSE after[n - 1]
  IN after

\* The ticket after the first n rules: every rule in turn, on the ticket as the rules
\* before it have left it.
triage(ticket) ==
  LET after[n \in 0..Cardinality(DOMAIN rows.rule)] ==
        IF n = 0 THEN ticket ELSE Tried(after[n - 1], rows.rule[list_rules[n]])
  IN after

apply_triage_rules(ticket) == triage(ticket)[Cardinality(DOMAIN rows.rule)]

(***************************************************************************)
(* Opening a ticket: an error, or the row to insert.                       *)
(***************************************************************************)
Error(error) == [error |-> error, row |-> None]

_category(category, sub) ==
  IF category \notin Category \/ sub \notin Subcategory \cup {None} THEN "CategoryNotFound"
  ELSE IF sub # None /\ parent[sub] # category THEN "SubcategoryMismatch"
  ELSE None

_resolve_requester(data, user) ==
  IF data.requester \in {None, user} THEN None
  ELSE IF user \notin Staff THEN "ForbiddenTicketAccess"
  ELSE IF data.requester \notin Active THEN "InvalidRequester"
  ELSE None

\* VIP before what was asked for before the default of the category.
_resolve_priority(data, requester) ==
  IF requester \in Vip THEN "vip" ELSE Or(data.priority, Default[data.category].priority)

create_ticket(data, user) ==
  IF _resolve_requester(data, user) # None THEN Error(_resolve_requester(data, user))
  ELSE IF _category(data.category, data.sub) # None THEN Error(_category(data.category, data.sub))
  ELSE LET requester == Or(data.requester, user)
       IN [error |-> None, row |-> apply_triage_rules(
            [requester |-> requester, category |-> data.category, keyword |-> data.keyword,
             priority |-> _resolve_priority(data, requester),
             team |-> Default[data.category].team, level |-> "n1", status |-> "aberto",
             item |-> None, created |-> today, resolved |-> None, assignee |-> None,
             verdict |-> "running"])]

\* _validate_answers: answers is a function from field ids to values.
_validate_answers(item, given) ==
  LET form == {id \in DOMAIN rows.field : rows.field[id].item = item}
      value(id) == IF id \in DOMAIN given THEN given[id] ELSE "blank"
  IN IF \E id \in DOMAIN given : id \notin form THEN "UnknownField"
     ELSE IF \E id \in form : rows.field[id].required /\ value(id) = "blank"
     THEN "MissingRequiredAnswer"
     ELSE IF \E id \in form : rows.field[id].kind # "text" /\ value(id) \notin {"blank", rows.field[id].kind}
     THEN "InvalidAnswerValue"
     ELSE None

(***************************************************************************)
(* The administrators' edits: an error, or one row to write.               *)
(***************************************************************************)
Nothing == [error |-> None, op |-> "none", table |-> "none", id |-> 0, row |-> None]
Raise(error) == [Nothing EXCEPT !.error = error]
Plan(op, table, id, row) == [error |-> None, op |-> op, table |-> table, id |-> id, row |-> row]

Unknown(table, id) == id \notin DOMAIN rows[table]
Changed(table, id, data) ==
  Plan("update", table, id, [c \in {d \in DOMAIN data : data[d] # rows[table][id][d]} |-> data[c]])

_references(rule) ==
  IF rule.category \notin Category \cup {None} THEN "CategoryNotFound"
  ELSE IF rule.team \notin Team \cup {None} THEN "TeamNotFound"
  ELSE None

\* Fault: the references of a new rule are not looked up.
create_rule_unchecked(row) == Plan("insert", "rule", 0, row)

create_rule(row) ==
  IF _references(row) # None THEN Raise(_references(row)) ELSE Plan("insert", "rule", 0, row)

update_rule(id, data) ==
  IF Unknown("rule", id) THEN Raise("TriageRuleNotFound")
  ELSE LET error == _references(Merge(rows.rule[id], data))
       IN IF {"category", "team"} \cap DOMAIN data # {} /\ error # None THEN Raise(error)
          ELSE Changed("rule", id, data)

delete_rule(id) ==
  IF Unknown("rule", id) THEN Raise("TriageRuleNotFound") ELSE Plan("delete", "rule", id, None)

\* The body does not say whether the item is active: a new one is.
create_item(row) ==
  IF _category(row.category, row.sub) # None THEN Raise(_category(row.category, row.sub))
  ELSE Plan("insert", "item", 0, [row EXCEPT !.active = TRUE])

\* A NULL subcategory counts as not given for the validation.
update_item(id, data) ==
  IF Unknown("item", id) THEN Raise("ServiceCatalogItemNotFound")
  ELSE LET given == [c \in {d \in DOMAIN data : data[d] # None} |-> data[c]]
           final == Merge(rows.item[id], given)
       IN IF {"category", "sub"} \cap DOMAIN given # {} /\ _category(final.category, final.sub) # None
          THEN Raise(_category(final.category, final.sub))
          ELSE Changed("item", id, data)

add_field(item, row) ==
  IF Unknown("item", item) THEN Raise("ServiceCatalogItemNotFound")
  ELSE Plan("insert", "field", 0, [row EXCEPT !.item = item])

NotOf(item, id) == Unknown("field", id) \/ rows.field[id].item # item

update_field(item, id, data) ==
  IF NotOf(item, id) THEN Raise("CatalogItemFieldNotFound") ELSE Changed("field", id, data)

remove_field(item, id) ==
  IF NotOf(item, id) THEN Raise("CatalogItemFieldNotFound") ELSE Plan("delete", "field", id, None)

(***************************************************************************)
(* Requests.                                                               *)
(***************************************************************************)
Idle == [at |-> "idle", status |-> 0, user |-> None, plan |-> Nothing, data |-> None,
         item |-> 0, given |-> <<>>, id |-> 0]

Init ==
  /\ \E stock \in Stock : /\ rows = stock.rows /\ parent = stock.parent
                           /\ tickets = stock.tickets /\ today = stock.today
                           /\ calls = stock.calls
  /\ lastId = Max({0} \cup Drawn(rows))
  /\ answers = {}
  /\ call = [s \in Session |-> Idle]

Receive(s) ==
  /\ call[s].at = "idle" /\ calls < MaxCalls
  /\ calls' = calls + 1
  /\ UNCHANGED <<rows, lastId, parent, tickets, answers, today>>

Status(error, caught) == IF error \in DOMAIN caught THEN caught[error] ELSE 500

\* A route for administrators: the exceptions it expects, or a commit still to come.
Serve(s, plan, caught, success) ==
  \E user \in Active : call' = [call EXCEPT ![s] =
    IF user \notin Admin THEN [Idle EXCEPT !.status = 403]
    ELSE IF plan.error # None THEN [Idle EXCEPT !.status = Status(plan.error, caught)]
    ELSE [Idle EXCEPT !.at = "checked", !.plan = plan, !.status = success]]

\* A PATCH of one column, which may carry a NULL (no keyword is FALSE).
Patch(inputs, columns) ==
  (UNION {{[c \in {column} |-> row[c]] : column \in columns} : row \in inputs})
    \cup {[c \in {column} |-> None] : column \in columns \ {"keyword"}}
Ids(table) == DOMAIN rows[table] \cup {0}

add_triage_rule(s) ==
  /\ Receive(s)
  /\ \E row \in RuleInput :
       Serve(s, create_rule(row), [CategoryNotFound |-> 422, TeamNotFound |-> 422], 201)

edit_triage_rule(s) ==
  /\ Receive(s)
  /\ \E id \in Ids("rule"), data \in Patch(RuleInput, RuleColumns) :
       Serve(s, update_rule(id, data),
             [TriageRuleNotFound |-> 404, CategoryNotFound |-> 422, TeamNotFound |-> 422], 200)

remove_triage_rule(s) ==
  /\ Receive(s)
  /\ \E id \in Ids("rule") : Serve(s, delete_rule(id), [TriageRuleNotFound |-> 404], 204)

add_catalog_item(s) ==
  /\ Receive(s)
  /\ \E row \in ItemInput :
       Serve(s, create_item(row), [CategoryNotFound |-> 422, SubcategoryMismatch |-> 422], 201)

edit_catalog_item(s) ==
  /\ Receive(s)
  /\ \E id \in Ids("item"), data \in Patch(ItemInput, ItemColumns) :
       Serve(s, update_item(id, data), [ServiceCatalogItemNotFound |-> 404,
                                        CategoryNotFound |-> 422, SubcategoryMismatch |-> 422], 200)

add_catalog_item_field(s) ==
  /\ Receive(s)
  /\ \E item \in Ids("item"), row \in FieldInput :
       Serve(s, add_field(item, row), [ServiceCatalogItemNotFound |-> 404], 201)

edit_catalog_item_field(s) ==
  /\ Receive(s)
  /\ \E item \in Ids("item"), id \in Ids("field"), data \in Patch(FieldInput, {"required", "kind"}) :
       Serve(s, update_field(item, id, data), [CatalogItemFieldNotFound |-> 404], 200)

remove_catalog_item_field(s) ==
  /\ Receive(s)
  /\ \E item \in Ids("item"), id \in Ids("field") :
       Serve(s, remove_field(item, id), [CatalogItemFieldNotFound |-> 404], 204)

Arrive(at, user, data) == [Idle EXCEPT !.at = at, !.user = user, !.data = data]

open_ticket(s) ==
  /\ Receive(s)
  /\ \E user \in Active, data \in TicketInput :
       call' = [call EXCEPT ![s] = Arrive("received", user, data)]

\* The item and its form are read, the answers are validated.
add_ticket_from_catalog(s) ==
  /\ Receive(s)
  /\ \E user \in Active, id \in Ids("item"), input \in CatalogInput :
       call' = [call EXCEPT ![s] =
         IF Unknown("item", id) \/ ~rows.item[id].active THEN [Idle EXCEPT !.status = 404]
         ELSE IF _validate_answers(id, input.given) # None THEN [Idle EXCEPT !.status = 422]
         ELSE [Arrive("validated", user,
                 [requester |-> input.requester, priority |-> input.priority, keyword |-> FALSE,
                  category |-> rows.item[id].category, sub |-> rows.item[id].sub])
               EXCEPT !.item = id, !.given = input.given]]

\* Each route expects some of the exceptions of create_ticket.
Caught(at) ==
  IF at = "received"
  THEN [ForbiddenTicketAccess |-> 403, InvalidRequester |-> 422,
        CategoryNotFound |-> 422, SubcategoryMismatch |-> 422]
  ELSE [ForbiddenTicketAccess |-> 403, InvalidRequester |-> 422]

CreateTicket(s) ==
  /\ call[s].at \in {"received", "validated"}
  /\ LET outcome == create_ticket(call[s].data, call[s].user)
     IN call' = [call EXCEPT ![s] =
          IF outcome.error # None
          THEN [Idle EXCEPT !.status = Status(outcome.error, Caught(call[s].at))]
          ELSE [@ EXCEPT !.at = "opening", !.user = None, !.data = outcome.row]]
  /\ UNCHANGED <<rows, lastId, parent, tickets, answers, today, calls>>

CommitTicket(s) ==
  /\ call[s].at = "opening"
  /\ tickets' = Append(tickets, call[s].data)
  /\ call' = [call EXCEPT ![s] = IF @.item = 0 THEN [Idle EXCEPT !.status = 201]
                                 ELSE [@ EXCEPT !.at = "opened", !.data = None,
                                                !.id = Len(tickets) + 1]]
  /\ UNCHANGED <<rows, lastId, parent, answers, today, calls>>

\* Fault: the foreign key of the answers is missing.
NoField(given) == FALSE

\* An answer refers to its field: the insert fails when that is gone.
FieldGone(given) == DOMAIN given \ DOMAIN rows.field # {}

CommitAnswers(s) == LET c == call[s] IN
  /\ c.at = "opened" /\ ~FieldGone(c.given)
  /\ tickets' = [tickets EXCEPT
       ![c.id].item = c.item,
       ![c.id].status = IF rows.item[c.item].approval THEN "aguardando_aprovacao" ELSE @]
  /\ answers' = answers \cup {[ticket |-> c.id, field |-> f, value |-> c.given[f]] : f \in DOMAIN c.given}
  /\ call' = [call EXCEPT ![s] = [Idle EXCEPT !.status = 201]]
  /\ UNCHANGED <<rows, lastId, parent, today, calls>>

(***************************************************************************)
(* The end of an edit.                                                     *)
(***************************************************************************)
\* The columns that may not be NULL.
Required(table) ==
  CASE table = "rule" -> {"order", "active", "outside"}
    [] table = "item" -> {"category", "active", "approval"}
    [] OTHER          -> {"item", "required", "kind"}

\* A NULL where there may be none, an UPDATE of a row that is gone, or a DELETE of a field
\* that has answers.
Refused(plan) ==
  \/ plan.op = "update" /\ \E c \in DOMAIN plan.row \cap Required(plan.table) : plan.row[c] = None
  \/ plan.op = "update" /\ Unknown(plan.table, plan.id) /\ plan.row # <<>>
  \/ plan.op = "delete" /\ plan.table = "field" /\ \E a \in answers : a.field = plan.id

ServerError(s) == LET c == call[s] IN
  /\ \/ c.at = "checked" /\ Refused(c.plan)
     \/ c.at = "opened" /\ FieldGone(c.given)
  /\ call' = [call EXCEPT ![s] = [Idle EXCEPT !.status = 500]]
  /\ UNCHANGED <<rows, lastId, parent, tickets, answers, today, calls>>

Put(table, id, row) == [i \in DOMAIN table \cup {id} |-> IF i = id THEN row ELSE table[i]]

Written(plan) == LET table == rows[plan.table] IN
  CASE plan.op = "insert" -> Put(table, lastId + 1, plan.row)
    [] plan.op = "update" /\ plan.id \in DOMAIN table -> Put(table, plan.id, Merge(table[plan.id], plan.row))
    [] OTHER -> [id \in {i \in DOMAIN table : plan.op = "update" \/ i # plan.id} |-> table[id]]

Commit(s) == LET plan == call[s].plan IN
  /\ call[s].at = "checked" /\ ~Refused(plan)
  /\ rows' = [rows EXCEPT ![plan.table] = Written(plan)]
  /\ lastId' = IF plan.op = "insert" THEN lastId + 1 ELSE lastId
  /\ call' = [call EXCEPT ![s] =
       [Idle EXCEPT !.status = IF plan.op = "update" /\ Unknown(plan.table, plan.id) THEN 500
                               ELSE call[s].status]]
  /\ UNCHANGED <<parent, tickets, answers, today, calls>>

(***************************************************************************)
(* What others do meanwhile.                                               *)
(***************************************************************************)
update_subcategory(sub, category) ==
  /\ parent[sub] # category /\ calls < MaxCalls
  /\ parent' = [parent EXCEPT ![sub] = category] /\ calls' = calls + 1
  /\ UNCHANGED <<rows, lastId, tickets, answers, today, call>>

Tick ==
  /\ today < LastDay /\ today' = today + 1
  /\ UNCHANGED <<rows, lastId, parent, tickets, answers, call, calls>>

Administer(s) ==
  \/ add_triage_rule(s) \/ edit_triage_rule(s) \/ remove_triage_rule(s)
  \/ add_catalog_item(s) \/ edit_catalog_item(s) \/ add_catalog_item_field(s)
  \/ edit_catalog_item_field(s) \/ remove_catalog_item_field(s) \/ Commit(s)

Open(s) ==
  \/ open_ticket(s) \/ add_ticket_from_catalog(s) \/ CreateTicket(s) \/ CommitTicket(s)
  \/ CommitAnswers(s)

Next ==
  \/ \E s \in Session : Administer(s) \/ Open(s) \/ ServerError(s)
  \/ \E sub \in Subcategory, category \in Category : update_subcategory(sub, category)
  \/ Tick

Spec == Init /\ [][Next]_intake

(***************************************************************************)
(* Properties                                                              *)
(***************************************************************************)
\* Types: rows have ids that were drawn and name rows that exist, a ticket has a category, a
\* queue and the days of its life, a request is at one of its places.
TypeOK ==
  /\ RowsOK(rows) /\ Drawn(rows) \subseteq 1..lastId
  /\ parent \in [Subcategory -> Category]
  /\ today \in 0..LastDay
  /\ \A t \in DOMAIN tickets : TicketOK(tickets[t], DOMAIN rows.item, today)
  /\ \A s \in Session :
       call[s].at \in {"idle", "checked", "received", "validated", "opening", "opened"}

\* What the last of some rules does to a column, or the column as it was.
LastWord(matching, column, ticket) ==
  LET acting == {i \in matching : rows.rule[i][column] # None}
  IN IF acting = {} THEN ticket[column]
     ELSE rows.rule[CHOOSE i \in acting : \A j \in acting \ {i} : Before(j, i)][column]

\* The matching rules are those that match the ticket in the queue where the matching rules
\* before them have put it; each column of the ticket is the last word of them.
Explains(matching, opened, ticket) ==
  /\ \A i \in DOMAIN rows.rule :
       LET sofar == LastWord({j \in matching : Before(j, i)}, "team", opened)
       IN i \in matching <=> Matches(rows.rule[i], [opened EXCEPT !.team = sofar])
  /\ \A column \in {"priority", "team", "level"} :
       ticket[column] = LastWord(matching, column, opened)

\* The ticket before triage.
Opened(data, user) ==
  LET requester == Or(data.requester, user)
  IN [team |-> Default[data.category].team, level |-> "n1", category |-> data.category,
      keyword |-> data.keyword, priority |-> _resolve_priority(data, requester)]

\* Triage lets the last matching rule decide each column, as its docstring says, whatever
\* the rules, their order and their ties, although a rule may move the ticket into a queue
\* whose hours decide whether a later rule matches.
TriageLastWins ==
  [][\A s \in Session :
       call[s].at \in {"received", "validated"} /\ call'[s].at = "opening" =>
         \E matching \in SUBSET DOMAIN rows.rule :
           Explains(matching, Opened(call[s].data, call[s].user), call'[s].data)]_intake

\* The form behind the answers of a ticket is kept: each answer is for a question of the
\* item that was requested, although the questions were read two commits before the answers
\* are stored and administrators remove questions meanwhile and later.
AnswersKeepQuestions ==
  \A a \in answers : /\ a.field \in DOMAIN rows.field
                     /\ rows.field[a.field].item = tickets[a.ticket].item
=============================================================================
