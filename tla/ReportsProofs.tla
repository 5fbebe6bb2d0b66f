--------------------------- MODULE ReportsProofs ---------------------------
(***************************************************************************)
(* Theorems about the desk of Intake and Reports for every set of users,   *)
(* categories, rules, items, forms and requests, and every bound.          *)
(***************************************************************************)
EXTENDS Reports, FiniteSetTheorems, SequenceTheorems, TLAPS

--------------------------------------------------------------------------
(* The inductive invariant of the desk *)

Tables == {"rule", "item", "field"}

\* A row an administrator is about to insert names rows that exist.
InsertOK(table, row) ==
  \/ /\ table = "rule" /\ DOMAIN row = RuleColumns /\ row.order \in Int
     /\ row.category \in Category \cup {None} /\ row.team \in Team \cup {None}
  \/ table = "item" /\ DOMAIN row = ItemColumns /\ row.category \in Category
  \/ table = "field" /\ DOMAIN row = FieldColumns /\ row.item \in DOMAIN rows.item

\* So do the columns he is about to update; a field stays with its item.
UpdateOK(table, row) ==
  \/ /\ table = "rule"
     /\ "order" \in DOMAIN row => row.order \in Int \cup {None}
     /\ "category" \in DOMAIN row => row.category \in Category \cup {None}
     /\ "team" \in DOMAIN row => row.team \in Team \cup {None}
  \/ table = "item" /\ ("category" \in DOMAIN row => row.category \in Category \cup {None})
  \/ table = "field" /\ "item" \notin DOMAIN row

PlanOK(plan) ==
  \/ plan.op = "insert" /\ InsertOK(plan.table, plan.row)
  \/ plan.op = "update" /\ UpdateOK(plan.table, plan.row)
  \/ plan.op = "delete" /\ plan.table \in {"rule", "field"}

\* The form a request has filled in is that of its item, whose fields may be gone.
FormOK(c) ==
  /\ c.item \in DOMAIN rows.item
  /\ \A f \in DOMAIN c.given :
       f \in 1..lastId /\ (f \in DOMAIN rows.field => rows.field[f].item = c.item)

CallColumns == {"at", "status", "user", "plan", "data", "item", "given", "id"}

\* What a request knows holds still.
CallOK(c) ==
  /\ DOMAIN c = CallColumns
  /\ c.at \in {"idle", "checked", "received", "validated", "opening", "opened"}
  /\ c.at = "checked" => PlanOK(c.plan)
  /\ c.at \in {"received", "validated"} => c.user \in Active
  /\ c.at \in {"received", "validated", "opening"} => c.item = 0 \/ FormOK(c)
  /\ c.at = "opening" => TicketOK(c.data, DOMAIN rows.item, today) /\ c.data.item = None
  /\ c.at = "opened" => /\ FormOK(c) /\ c.id \in DOMAIN tickets /\ tickets[c.id].item = None
                        /\ \A a \in answers : a.ticket # c.id

\* No two requests store answers for the same ticket.
Apart == \A s, q \in Session :
  call[s].at = "opened" /\ call[q].at = "opened" /\ call[s].id = call[q].id => s = q

AnswersOK == \A a \in answers : a.ticket \in DOMAIN tickets

Shape ==
  /\ lastId \in Nat
  /\ \E S : tickets \in Seq(S)
  /\ DOMAIN call = Session

IInv == /\ Shape /\ TypeOK /\ AnswersKeepQuestions /\ AnswersOK /\ Apart
        /\ \A s \in Session : CallOK(call[s])

\* Items are never deleted, ids never used again, a field stays with its item, time passes.
Grows ==
  /\ DOMAIN rows.item \subseteq DOMAIN rows'.item
  /\ lastId' \in Nat /\ lastId <= lastId'
  /\ \A f \in 1..lastId : f \in DOMAIN rows'.field =>
       f \in DOMAIN rows.field /\ rows'.field[f].item = rows.field[f].item
  /\ today' \in Nat /\ today <= today'

--------------------------------------------------------------------------
(* Requests that are not served in a step *)

LEMMA TicketStays ==
    ASSUME NEW ticket, NEW items, NEW more, NEW day \in Nat, NEW later \in Nat,
           TicketOK(ticket, items, day), items \subseteq more, day <= later
    PROVE  TicketOK(ticket, more, later)
BY DEF TicketOK

\* What a request knows is not affected by what the others write.
LEMMA CallStays ==
    ASSUME IInv, Grows, NEW c, CallOK(c),
           c.at = "opened" => /\ c.id \in DOMAIN tickets' /\ tickets'[c.id].item = None
                              /\ \A a \in answers' : a.ticket # c.id
    PROVE  CallOK(c)'
<1>1. lastId \in Nat /\ today \in Nat /\ today' \in Nat /\ lastId' \in Nat
  BY IntakeAssumption DEF IInv, TypeOK, Shape, Grows
<1>2. FormOK(c) => FormOK(c)'
  BY <1>1 DEF FormOK, Grows
<1>3. PlanOK(c.plan) => PlanOK(c.plan)'
  BY DEF PlanOK, InsertOK, UpdateOK, Grows
<1>4. TicketOK(c.data, DOMAIN rows.item, today) => TicketOK(c.data, DOMAIN rows.item, today)'
  <2>1. today <= today' /\ DOMAIN rows.item \subseteq DOMAIN rows'.item
    BY DEF Grows
  <2>2. TicketOK(c.data, DOMAIN rows.item, today) => TicketOK(c.data, DOMAIN rows'.item, today')
    BY <1>1, <2>1, TicketStays
  <2> QED BY <2>2
<1> QED BY <1>2, <1>3, <1>4 DEF CallOK

\* A step of one request that writes nothing.
LEMMA CallStep ==
    ASSUME IInv, UNCHANGED <<rows, lastId, parent, tickets, answers, today>>,
           NEW s \in Session, NEW x, call' = [call EXCEPT ![s] = x], CallOK(x), x.at # "opened"
    PROVE  IInv'
<1>1. DOMAIN call' = Session /\ call'[s] = x /\ \A q \in Session : q # s => call'[q] = call[q]
  BY DEF IInv, Shape
<1>2. \A q \in Session : CallOK(call'[q])
  BY <1>1 DEF IInv
<1>3. \A c : CallOK(c) <=> CallOK(c)'
  BY DEF CallOK, PlanOK, InsertOK, UpdateOK, FormOK, TicketOK
<1>4. \A q \in Session : CallOK(call[q])'
  BY <1>2, <1>3
<1>5. TypeOK'
  BY <1>2 DEF IInv, TypeOK, RowsOK, Drawn, TicketOK, CallOK
<1>6. Apart'
  BY <1>1 DEF IInv, Apart
<1>7. Shape' /\ AnswersOK' /\ AnswersKeepQuestions'
  BY <1>1 DEF IInv, Shape, AnswersOK, AnswersKeepQuestions
<1> QED BY <1>4, <1>5, <1>6, <1>7 DEF IInv

LEMMA IdleOK ==
    ASSUME NEW status
    PROVE  CallOK([Idle EXCEPT !.status = status]) /\ [Idle EXCEPT !.status = status].at = "idle"
BY DEF CallOK, Idle, CallColumns

LEMMA Replies ==
    ASSUME IInv, UNCHANGED <<rows, lastId, parent, tickets, answers, today>>,
           NEW s \in Session, NEW status, call' = [call EXCEPT ![s] = [Idle EXCEPT !.status = status]]
    PROVE  IInv'
<1> DEFINE x == [Idle EXCEPT !.status = status]
<1>1. CallOK(x) /\ x.at # "opened"
  BY IdleOK
<1> HIDE DEF x
<1>2. call' = [call EXCEPT ![s] = x]
  BY DEF x
<1> QED BY <1>1, <1>2, CallStep

--------------------------------------------------------------------------
(* What the services let through *)

LEMMA Constants ==
    /\ None # "CategoryNotFound" /\ None # "SubcategoryMismatch" /\ None # "TeamNotFound"
    /\ None # "TriageRuleNotFound" /\ None # "ServiceCatalogItemNotFound"
    /\ None # "CatalogItemFieldNotFound" /\ None # "ForbiddenTicketAccess"
    /\ None # "InvalidRequester" /\ None # "UnknownField" /\ None # "MissingRequiredAnswer"
    /\ None # "InvalidAnswerValue"
    /\ None \notin Category /\ None \notin Team /\ None \notin User
    /\ \A row \in RuleInput : DOMAIN row = RuleColumns /\ row.order \in Int
    /\ \A row \in ItemInput : DOMAIN row = ItemColumns
    /\ \A row \in FieldInput : DOMAIN row = FieldColumns
BY IntakeAssumption DEF Exceptions

LEMMA ReferencesExist ==
    ASSUME NEW rule, _references(rule) = None
    PROVE  rule.category \in Category \cup {None} /\ rule.team \in Team \cup {None}
BY Constants DEF _references

LEMMA CategoryExists ==
    ASSUME NEW category, NEW sub, _category(category, sub) = None
    PROVE  category \in Category
BY Constants DEF _category

LEMMA PatchShape ==
    ASSUME NEW inputs, NEW columns, NEW data, data \in Patch(inputs, columns)
    PROVE  /\ \E column \in columns : DOMAIN data = {column}
           /\ \A c \in DOMAIN data : data[c] = None \/ \E row \in inputs : data[c] = row[c]
<1> DEFINE Given == UNION {{[c \in {column} |-> row[c]] : column \in columns} : row \in inputs}
           Nulls == {[c \in {column} |-> None] : column \in columns \ {"keyword"}}
<1>1. data \in Given => \E row \in inputs, column \in columns : data = [c \in {column} |-> row[c]]
  OBVIOUS
<1>2. data \in Nulls => \E column \in columns : data = [c \in {column} |-> None]
  OBVIOUS
<1>3. Patch(inputs, columns) = Given \cup Nulls
  BY DEF Patch
<1> HIDE DEF Given, Nulls
<1>4. \/ \E row \in inputs, column \in columns : data = [c \in {column} |-> row[c]]
      \/ \E column \in columns : data = [c \in {column} |-> None]
  BY <1>1, <1>2, <1>3
<1> QED BY <1>4

LEMMA RaisesNothing ==
    ASSUME NEW error, Raise(error).error = None
    PROVE  error = None
BY DEF Raise, Nothing

LEMMA InsertPlan ==
    ASSUME NEW table, NEW row, InsertOK(table, row)
    PROVE  PlanOK(Plan("insert", table, 0, row))
BY DEF PlanOK, Plan

LEMMA ChangedRow ==
    ASSUME NEW table, NEW id, NEW data
    PROVE  /\ Changed(table, id, data).op = "update" /\ Changed(table, id, data).table = table
           /\ DOMAIN Changed(table, id, data).row \subseteq DOMAIN data
           /\ \A c \in DOMAIN Changed(table, id, data).row :
                 Changed(table, id, data).row[c] = data[c]
BY DEF Changed, Plan

LEMMA RulePlans ==
    /\ \A row \in RuleInput : create_rule(row).error = None => PlanOK(create_rule(row))
    /\ IInv => \A id, data :
          data \in Patch(RuleInput, RuleColumns) /\ update_rule(id, data).error = None
            => PlanOK(update_rule(id, data))
    /\ \A id : delete_rule(id).error = None => PlanOK(delete_rule(id))
<1>1. ASSUME NEW row \in RuleInput, create_rule(row).error = None
      PROVE  PlanOK(create_rule(row))
  <2>1. _references(row) = None
    BY <1>1, RaisesNothing DEF create_rule
  <2>2. InsertOK("rule", row)
    BY <2>1, ReferencesExist, Constants DEF InsertOK
  <2> QED BY <2>1, <2>2, InsertPlan DEF create_rule
<1>2. ASSUME IInv, NEW id, NEW data \in Patch(RuleInput, RuleColumns),
             update_rule(id, data).error = None
      PROVE  PlanOK(update_rule(id, data))
  <2> DEFINE final == Merge(rows.rule[id], data)
             plan == Changed("rule", id, data)
  <2>1. ~Unknown("rule", id)
    <3>1. Unknown("rule", id) => "TriageRuleNotFound" = None
      BY <1>2, RaisesNothing DEF update_rule
    <3> QED BY <3>1, Constants
  <2>2. update_rule(id, data) = plan
        /\ ({"category", "team"} \cap DOMAIN data # {} => _references(final) = None)
    BY <1>2, <2>1, RaisesNothing DEF update_rule
  <2>3. id \in DOMAIN rows.rule /\ DOMAIN rows.rule[id] = RuleColumns
    BY <1>2, <2>1 DEF Unknown, IInv, TypeOK, RowsOK
  <2>4. ASSUME NEW c \in {"category", "team"}, c \in DOMAIN data
        PROVE  final[c] = data[c]
    BY <2>3, <2>4 DEF Merge, RuleColumns
  <2>5. {"category", "team"} \cap DOMAIN data # {} =>
          final.category \in Category \cup {None} /\ final.team \in Team \cup {None}
    BY <2>2, ReferencesExist
  <2>6. "order" \in DOMAIN data => data.order \in Int \cup {None}
    BY Constants, PatchShape
  <2>7. UpdateOK("rule", plan.row)
    <3>1. /\ "category" \in DOMAIN plan.row => plan.row.category \in Category \cup {None}
          /\ "team" \in DOMAIN plan.row => plan.row.team \in Team \cup {None}
      <4> HIDE DEF plan, final
      <4>1. /\ DOMAIN plan.row \subseteq DOMAIN data
            /\ \A c \in DOMAIN plan.row : plan.row[c] = data[c]
        BY ChangedRow DEF plan
      <4> QED BY <2>4, <2>5, <4>1
    <3>2. "order" \in DOMAIN plan.row => plan.row.order \in Int \cup {None}
      BY <2>6, ChangedRow
    <3> QED BY <3>1, <3>2 DEF UpdateOK
  <2> QED BY <2>2, <2>7, ChangedRow DEF PlanOK
<1>3. ASSUME NEW id, delete_rule(id).error = None
      PROVE  PlanOK(delete_rule(id))
  <2>1. Unknown("rule", id) => "TriageRuleNotFound" = None
    BY <1>3, RaisesNothing DEF delete_rule
  <2> QED BY <2>1, Constants DEF delete_rule, PlanOK, Plan
<1> QED BY <1>1, <1>2, <1>3

LEMMA ItemPlans ==
    /\ \A row \in ItemInput : create_item(row).error = None => PlanOK(create_item(row))
    /\ IInv => \A id, data :
          data \in Patch(ItemInput, ItemColumns) /\ update_item(id, data).error = None
            => PlanOK(update_item(id, data))
<1>1. ASSUME NEW row \in ItemInput, create_item(row).error = None
      PROVE  PlanOK(create_item(row))
  <2>1. _category(row.category, row.sub) = None
    BY <1>1, RaisesNothing DEF create_item
  <2>a. PICK new : new = [row EXCEPT !.active = TRUE]
    OBVIOUS
  <2>2. DOMAIN new = ItemColumns /\ new.category = row.category
    BY <2>a, Constants DEF ItemColumns
  <2>3. InsertOK("item", new)
    BY <2>1, <2>2, CategoryExists DEF InsertOK
  <2> QED BY <2>1, <2>3, <2>a, InsertPlan DEF create_item
<1>2. ASSUME IInv, NEW id, NEW data \in Patch(ItemInput, ItemColumns),
             update_item(id, data).error = None
      PROVE  PlanOK(update_item(id, data))
  <2> DEFINE given == [c \in {d \in DOMAIN data : data[d] # None} |-> data[c]]
             final == Merge(rows.item[id], given)
             plan == Changed("item", id, data)
  <2>1. ~Unknown("item", id)
    <3>1. Unknown("item", id) => "ServiceCatalogItemNotFound" = None
      BY <1>2, RaisesNothing DEF update_item
    <3> QED BY <3>1, Constants
  <2>2. update_item(id, data) = plan
        /\ ({"category", "sub"} \cap DOMAIN given # {}
              => _category(final.category, final.sub) = None)
    BY <1>2, <2>1, RaisesNothing DEF update_item
  <2>3. id \in DOMAIN rows.item /\ DOMAIN rows.item[id] = ItemColumns
    BY <1>2, <2>1 DEF Unknown, IInv, TypeOK, RowsOK
  <2>4. ASSUME "category" \in DOMAIN data
        PROVE  data.category \in Category \cup {None}
    <3>1. CASE data.category # None
      <4>1. "category" \in DOMAIN given /\ given.category = data.category
        BY <2>4, <3>1
      <4>2. final.category = data.category
        BY <2>3, <4>1 DEF Merge, ItemColumns
      <4>3. _category(final.category, final.sub) = None
        BY <2>2, <4>1
      <4> QED BY <4>2, <4>3, CategoryExists
    <3> QED BY <3>1
  <2>5. UpdateOK("item", plan.row)
    BY <2>4, ChangedRow DEF UpdateOK
  <2> QED BY <2>2, <2>5, ChangedRow DEF PlanOK
<1> QED BY <1>1, <1>2

LEMMA FieldPlans ==
    /\ \A item, row : row \in FieldInput /\ add_field(item, row).error = None
          => PlanOK(add_field(item, row))
    /\ \A item, id, data :
          data \in Patch(FieldInput, {"required", "kind"}) /\ update_field(item, id, data).error = None
            => PlanOK(update_field(item, id, data))
    /\ \A item, id : remove_field(item, id).error = None => PlanOK(remove_field(item, id))
<1>1. ASSUME NEW item, NEW row \in FieldInput, add_field(item, row).error = None
      PROVE  PlanOK(add_field(item, row))
  <2> DEFINE new == [row EXCEPT !.item = item]
  <2>1. item \in DOMAIN rows.item
    <3>1. Unknown("item", item) => "ServiceCatalogItemNotFound" = None
      BY <1>1, RaisesNothing DEF add_field
    <3> QED BY <3>1, Constants DEF Unknown
  <2>2. InsertOK("field", new)
    BY <2>1, Constants DEF InsertOK, FieldColumns
  <2>3. add_field(item, row) = Plan("insert", "field", 0, new)
    BY <2>1 DEF add_field, Unknown
  <2> HIDE DEF new
  <2> QED BY <2>2, <2>3, InsertPlan
<1>2. ASSUME NEW item, NEW id, NEW data \in Patch(FieldInput, {"required", "kind"}),
             update_field(item, id, data).error = None
      PROVE  PlanOK(update_field(item, id, data))
  <2>1. NotOf(item, id) => "CatalogItemFieldNotFound" = None
    BY <1>2, RaisesNothing DEF update_field
  <2>2. update_field(item, id, data) = Changed("field", id, data)
    BY <2>1, Constants DEF update_field
  <2>3. "item" \notin DOMAIN data
    <3> DEFINE columns == {"required", "kind"}
    <3>1. data \in Patch(FieldInput, columns)
      OBVIOUS
    <3>2. "item" \notin columns
      OBVIOUS
    <3> HIDE DEF columns
    <3>3. \E column \in columns : DOMAIN data = {column}
      BY <3>1, PatchShape
    <3> QED BY <3>2, <3>3
  <2>4. UpdateOK("field", Changed("field", id, data).row)
    BY <2>3, ChangedRow DEF UpdateOK
  <2> QED BY <2>2, <2>4, ChangedRow DEF PlanOK
<1>3. ASSUME NEW item, NEW id, remove_field(item, id).error = None
      PROVE  PlanOK(remove_field(item, id))
  <2>1. NotOf(item, id) => "CatalogItemFieldNotFound" = None
    BY <1>3, RaisesNothing DEF remove_field
  <2> QED BY <2>1, Constants DEF remove_field, PlanOK, Plan
<1> QED BY <1>1, <1>2, <1>3

--------------------------------------------------------------------------
(* Requests *)

LEMMA Serves ==
    ASSUME IInv, NEW s \in Session, Receive(s), NEW plan, NEW caught, NEW success,
           Serve(s, plan, caught, success), plan.error = None => PlanOK(plan)
    PROVE  IInv'
<1> DEFINE checked == [Idle EXCEPT !.at = "checked", !.plan = plan, !.status = success]
<1>1. UNCHANGED <<rows, lastId, parent, tickets, answers, today>>
  BY DEF Receive
<1>2. CASE call' = [call EXCEPT ![s] = checked] /\ plan.error = None
  <2>1. CallOK(checked) /\ checked.at # "opened"
    BY <1>2 DEF CallOK, Idle, CallColumns
  <2> HIDE DEF checked
  <2> QED BY <1>1, <1>2, <2>1, CallStep
<1>3. CASE \E status : call' = [call EXCEPT ![s] = [Idle EXCEPT !.status = status]]
  BY <1>1, <1>3, Replies
<1> QED BY <1>2, <1>3 DEF Serve

LEMMA AdministerRequests ==
    ASSUME IInv, NEW s \in Session,
           \/ add_triage_rule(s) \/ edit_triage_rule(s) \/ remove_triage_rule(s)
           \/ add_catalog_item(s) \/ edit_catalog_item(s) \/ add_catalog_item_field(s)
           \/ edit_catalog_item_field(s) \/ remove_catalog_item_field(s)
    PROVE  IInv'
<1>1. CASE add_triage_rule(s)
  BY <1>1, Serves, RulePlans DEF add_triage_rule
<1>2. CASE edit_triage_rule(s)
  BY <1>2, Serves, RulePlans DEF edit_triage_rule
<1>3. CASE remove_triage_rule(s)
  BY <1>3, Serves, RulePlans DEF remove_triage_rule
<1>4. CASE add_catalog_item(s)
  BY <1>4, Serves, ItemPlans DEF add_catalog_item
<1>5. CASE edit_catalog_item(s)
  BY <1>5, Serves, ItemPlans DEF edit_catalog_item
<1>6. CASE add_catalog_item_field(s)
  BY <1>6, Serves, FieldPlans DEF add_catalog_item_field
<1>7. CASE edit_catalog_item_field(s)
  BY <1>7, Serves, FieldPlans DEF edit_catalog_item_field
<1>8. CASE remove_catalog_item_field(s)
  BY <1>8, Serves, FieldPlans DEF remove_catalog_item_field
<1> QED BY <1>1, <1>2, <1>3, <1>4, <1>5, <1>6, <1>7, <1>8

\* A form that passes holds answers to questions of its item only.
LEMMA FormFits ==
    ASSUME NEW item, NEW given, _validate_answers(item, given) = None, NEW f \in DOMAIN given
    PROVE  f \in DOMAIN rows.field /\ rows.field[f].item = item
BY Constants DEF _validate_answers

LEMMA TicketRequests ==
    ASSUME IInv, NEW s \in Session, open_ticket(s) \/ add_ticket_from_catalog(s)
    PROVE  IInv'
<1>1. CASE open_ticket(s)
  <2>1. UNCHANGED <<rows, lastId, parent, tickets, answers, today>>
    BY <1>1 DEF open_ticket, Receive
  <2>2. PICK user \in Active, data \in TicketInput :
          call' = [call EXCEPT ![s] = Arrive("received", user, data)]
    BY <1>1 DEF open_ticket
  <2> DEFINE x == Arrive("received", user, data)
  <2>3. CallOK(x) /\ x.at # "opened"
    BY DEF CallOK, Arrive, Idle, CallColumns
  <2> HIDE DEF x
  <2> QED BY <2>1, <2>2, <2>3, CallStep DEF x
<1>2. CASE add_ticket_from_catalog(s)
  <2>1. UNCHANGED <<rows, lastId, parent, tickets, answers, today>>
    BY <1>2 DEF add_ticket_from_catalog, Receive
  <2>2. PICK user \in Active, id \in Ids("item"), input \in CatalogInput :
          call' = [call EXCEPT ![s] =
         IF Unknown("item", id) \/ ~rows.item[id].active THEN [Idle EXCEPT !.status = 404]
         ELSE IF _validate_answers(id, input.given) # None THEN [Idle EXCEPT !.status = 422]
         ELSE [Arrive("validated", user,
                 [requester |-> input.requester, priority |-> input.priority, keyword |-> FALSE,
                  category |-> rows.item[id].category, sub |-> rows.item[id].sub])
               EXCEPT !.item = id, !.given = input.given]]
    BY <1>2 DEF add_ticket_from_catalog
  <2> DEFINE data == [requester |-> input.requester, priority |-> input.priority, keyword |-> FALSE,
                      category |-> rows.item[id].category, sub |-> rows.item[id].sub]
             x == [Arrive("validated", user, data) EXCEPT !.item = id, !.given = input.given]
  <2>3. CASE \E status : call' = [call EXCEPT ![s] = [Idle EXCEPT !.status = status]]
    BY <2>1, <2>3, Replies
  <2>4. CASE /\ ~Unknown("item", id) /\ _validate_answers(id, input.given) = None
             /\ call' = [call EXCEPT ![s] = x]
    <3> HIDE DEF data
    <3>1. x.item = id /\ x.given = input.given /\ x.at = "validated" /\ x.user = user
          /\ DOMAIN x = CallColumns
      BY DEF Arrive, Idle, CallColumns
    <3> HIDE DEF x
    <3>2. \A f \in DOMAIN input.given : f \in DOMAIN rows.field /\ rows.field[f].item = id
      BY <2>4, FormFits
    <3>3. DOMAIN rows.field \subseteq 1..lastId
      BY DEF IInv, TypeOK, RowsOK, Drawn
    <3>4. FormOK(x)
      BY <2>4, <3>1, <3>2, <3>3 DEF FormOK, Unknown
    <3>5. CallOK(x)
      BY <3>1, <3>4 DEF CallOK
    <3> QED BY <2>1, <2>4, <3>1, <3>5, CallStep
  <2> QED BY <2>2, <2>3, <2>4
<1> QED BY <1>1, <1>2

--------------------------------------------------------------------------
(* Induction, and the places of a finite order *)

\* Induction over a set of numbers.
LEMMA Induction ==
    ASSUME NEW T, 0 \in T, \A n \in Nat : n \in T => n + 1 \in T
    PROVE  \A n \in Nat : n \in T
<1> SUFFICES ASSUME Nat \ T # {} PROVE FALSE
  OBVIOUS
<1>1. PICK R : R = {p \in Nat \X Nat : p[1] < p[2]}
  OBVIOUS
<1>2. IsWellFoundedOn(R, Nat)
  BY <1>1, NatLessThanWellFounded DEF OpToRel
<1>3. PICK x \in Nat \ T : \A y \in Nat \ T : ~ (<<y, x>> \in R)
  BY <1>2, WFMin
<1>4. x - 1 \in Nat \ T \/ x = 0
  OBVIOUS
<1>5. x - 1 \in Nat => <<x - 1, x>> \in R
  BY <1>1
<1> QED BY <1>3, <1>4, <1>5

\* R orders S.
Ordered(S, R) ==
  /\ \A i \in S : <<i, i>> \notin R
  /\ \A i, j \in S : i # j => <<i, j>> \in R \/ <<j, i>> \in R
  /\ \A i, j, k \in S : <<i, j>> \in R /\ <<j, k>> \in R => <<i, k>> \in R

\* rank gives each element its place in the order, and every place is taken.
Ranked(S, R, rank) ==
  /\ \A i \in S : rank[i] \in 0..Cardinality(S) - 1
  /\ \A i, j \in S : rank[i] < rank[j] <=> <<i, j>> \in R
  /\ \A n \in 0..Cardinality(S) - 1 : \E i \in S : rank[i] = n

LEMMA Places ==
    ASSUME NEW S, IsFiniteSet(S), NEW R, Ordered(S, R),
           NEW rank, rank = [i \in S |-> Cardinality({j \in S : <<j, i>> \in R})]
    PROVE  Ranked(S, R, rank)
<1> DEFINE Below(i) == {j \in S : <<j, i>> \in R}
<1>0. Cardinality(S) \in Nat
  BY FS_CardinalityType
<1>a. /\ \A i \in S : <<i, i>> \notin R
      /\ \A i, j \in S : i # j => <<i, j>> \in R \/ <<j, i>> \in R
      /\ \A i, j, k \in S : <<i, j>> \in R /\ <<j, k>> \in R => <<i, k>> \in R
  BY DEF Ordered
<1>1. ASSUME NEW i \in S
      PROVE  rank[i] \in 0..Cardinality(S) - 1 /\ IsFiniteSet(Below(i))
  <2>1. Below(i) \in SUBSET S /\ Below(i) # S
    BY <1>a
  <2>2. rank[i] = Cardinality(Below(i))
    OBVIOUS
  <2> HIDE DEF Below
  <2>3. IsFiniteSet(Below(i)) /\ Cardinality(Below(i)) \in Nat
    BY <2>1, FS_Subset, FS_CardinalityType
  <2>4. Cardinality(Below(i)) <= Cardinality(S) /\ Cardinality(Below(i)) # Cardinality(S)
    BY <2>1, FS_Subset
  <2> QED BY <1>0, <2>2, <2>3, <2>4
<1>2. ASSUME NEW i \in S, NEW j \in S, <<i, j>> \in R
      PROVE  rank[i] < rank[j]
  <2>1. Below(i) \in SUBSET Below(j) /\ Below(i) # Below(j)
    <3>1. i \in Below(j) /\ i \notin Below(i)
      BY <1>a, <1>2
    <3>2. \A k \in Below(i) : k \in Below(j)
      BY <1>a, <1>2
    <3> QED BY <3>1, <3>2
  <2>2. rank[i] = Cardinality(Below(i)) /\ rank[j] = Cardinality(Below(j))
    OBVIOUS
  <2>3. rank[i] \in Nat /\ rank[j] \in Nat /\ IsFiniteSet(Below(j))
    BY <1>0, <1>1
  <2> HIDE DEF Below
  <2>4. Cardinality(Below(i)) <= Cardinality(Below(j)) /\ Cardinality(Below(i)) # Cardinality(Below(j))
    BY <2>1, <2>3, FS_Subset
  <2> QED BY <2>2, <2>3, <2>4
<1>3. ASSUME NEW i \in S, NEW j \in S
      PROVE  rank[i] < rank[j] <=> <<i, j>> \in R
  <2>1. rank[i] \in Int /\ rank[j] \in Int
    BY <1>0, <1>1
  <2>2. i = j \/ <<i, j>> \in R \/ <<j, i>> \in R
    BY <1>a
  <2>3. CASE i = j
    BY <1>a, <2>1, <2>3
  <2>4. CASE <<i, j>> \in R
    BY <1>2, <2>4
  <2>5. CASE <<j, i>> \in R
    <3>1. rank[j] < rank[i]
      BY <1>2, <2>5
    <3>2. <<i, j>> \notin R
      BY <1>a, <2>5
    <3> QED BY <2>1, <3>1, <3>2
  <2> QED BY <2>2, <2>3, <2>4, <2>5
<1>4. rank \in Injection(S, 0..Cardinality(S) - 1)
  <2>1. rank \in [S -> 0..Cardinality(S) - 1]
    BY <1>1
  <2>2. ASSUME NEW i \in S, NEW j \in S, rank[i] = rank[j]
        PROVE  i = j
    <3>1. rank[i] \in Int /\ rank[j] \in Int
      BY <1>0, <1>1
    <3>2. <<i, j>> \notin R /\ <<j, i>> \notin R
      BY <1>3, <2>2, <3>1
    <3> QED BY <1>a, <3>2
  <2> QED BY <2>1, <2>2 DEF Injection, IsInjective
<1>5. IsFiniteSet(0..Cardinality(S) - 1) /\ Cardinality(0..Cardinality(S) - 1) = Cardinality(S)
  BY <1>0, FS_Interval
<1>6. rank \in Surjection(S, 0..Cardinality(S) - 1)
  BY <1>4, <1>5, FS_Injection
<1> QED BY <1>1, <1>3, <1>6 DEF Surjection, Ranked

--------------------------------------------------------------------------
(* Triage *)

Rules == DOMAIN rows.rule
RuleCount == Cardinality(Rules)

\* Rules have a number, an order and columns that name what exists.
RulesOK ==
  /\ IsFiniteSet(Rules) /\ Rules \subseteq Nat
  /\ \A i \in Rules : /\ DOMAIN rows.rule[i] = RuleColumns /\ rows.rule[i].order \in Int
                      /\ rows.rule[i].team \in Team \cup {None}

LEMMA RulesAreOK ==
    ASSUME IInv
    PROVE  RulesOK
<1>1. Rules \subseteq 1..lastId /\ lastId \in Nat
  BY DEF IInv, Shape, TypeOK, RowsOK, Drawn, Rules
<1>2. IsFiniteSet(Rules) /\ Rules \subseteq Nat
  <2>1. IsFiniteSet(1..lastId)
    BY <1>1, FS_Interval
  <2>2. Rules \in SUBSET (1..lastId)
    BY <1>1
  <2>3. IsFiniteSet(Rules)
    BY <2>1, <2>2, FS_Subset
  <2>4. Rules \subseteq Nat
    BY <1>1
  <2> QED BY <2>3, <2>4
<1> QED BY <1>2 DEF IInv, TypeOK, RowsOK, RulesOK, Rules

\* list_rules goes through every rule, once, in its order.
LEMMA ListsEveryRule ==
    ASSUME RulesOK
    PROVE  /\ RuleCount \in Nat /\ DOMAIN list_rules = 1..RuleCount
           /\ \A n \in 1..RuleCount : list_rules[n] \in Rules
           /\ \A i \in Rules : \E n \in 1..RuleCount : list_rules[n] = i
           /\ \A m, n \in 1..RuleCount : Before(list_rules[m], list_rules[n]) <=> m < n
<1> DEFINE R == {p \in Rules \X Rules : Before(p[1], p[2])}
           rank == [i \in Rules |-> Cardinality({j \in Rules : <<j, i>> \in R})]
<1>1. \A i, j \in Rules : <<i, j>> \in R <=> Before(i, j)
  OBVIOUS
<1>2. \A i, j \in Rules : {j2 \in Rules : <<j2, i>> \in R} = {j2 \in Rules : Before(j2, i)}
  OBVIOUS
<1>3. /\ \A i \in Rules : ~Before(i, i)
      /\ \A i, j \in Rules : i # j => Before(i, j) \/ Before(j, i)
      /\ \A i, j, k \in Rules : Before(i, j) /\ Before(j, k) => Before(i, k)
  BY DEF RulesOK, Before
<1> HIDE DEF R
<1>4. /\ \A i \in Rules : rank[i] \in 0..RuleCount - 1
      /\ \A i, j \in Rules : rank[i] < rank[j] <=> <<i, j>> \in R
      /\ \A n \in 0..RuleCount - 1 : \E i \in Rules : rank[i] = n
  <2> HIDE DEF rank
  <2>1. rank = [i \in Rules |-> Cardinality({j \in Rules : <<j, i>> \in R})]
    BY DEF rank
  <2>2. Ordered(Rules, R)
    BY <1>1, <1>3 DEF Ordered
  <2>3. Ranked(Rules, R, rank)
    BY <2>1, <2>2, Places DEF RulesOK
  <2> QED BY <2>3 DEF Ranked, RuleCount
<1>5. \A i \in Rules : rank[i] = Cardinality({j \in Rules : Before(j, i)})
  BY <1>2
<1>6. RuleCount \in Nat
  BY FS_CardinalityType DEF RulesOK, RuleCount
<1> HIDE DEF rank
<1>7. ASSUME NEW n \in 1..RuleCount
      PROVE  list_rules[n] \in Rules /\ rank[list_rules[n]] = n - 1
  <2>1. list_rules[n] = CHOOSE i \in Rules : Cardinality({j \in Rules : Before(j, i)}) = n - 1
    BY DEF list_rules, Rules, RuleCount
  <2>2. \E i \in Rules : Cardinality({j \in Rules : Before(j, i)}) = n - 1
    BY <1>4, <1>5, <1>6
  <2>3. list_rules[n] \in Rules
        /\ Cardinality({j \in Rules : Before(j, list_rules[n])}) = n - 1
    BY <2>1, <2>2
  <2> QED BY <1>5, <2>3
<1>8. DOMAIN list_rules = 1..RuleCount
  BY DEF list_rules, RuleCount, Rules
<1>9. ASSUME NEW i \in Rules
      PROVE  \E n \in 1..RuleCount : list_rules[n] = i
  <2>1. rank[i] + 1 \in 1..RuleCount
    BY <1>4, <1>6
  <2> DEFINE k == list_rules[rank[i] + 1]
  <2>2. k \in Rules /\ rank[k] = rank[i]
    BY <1>4, <1>6, <1>7, <2>1
  <2> HIDE DEF k
  <2>3. rank[i] \in Int
    BY <1>4
  <2>4. k = i
    BY <1>1, <1>3, <1>4, <2>2, <2>3
  <2> QED BY <2>1, <2>4 DEF k
<1>10. ASSUME NEW m \in 1..RuleCount, NEW n \in 1..RuleCount
       PROVE  Before(list_rules[m], list_rules[n]) <=> m < n
  <2>1. m \in Int /\ n \in Int
    BY <1>6
  <2> DEFINE i == list_rules[m]
             k == list_rules[n]
  <2>2. i \in Rules /\ k \in Rules /\ rank[i] = m - 1 /\ rank[k] = n - 1
    BY <1>7
  <2> HIDE DEF i, k
  <2>3. rank[i] < rank[k] <=> Before(i, k)
    BY <1>1, <1>4, <2>2
  <2>4. Before(i, k) <=> m < n
    BY <2>1, <2>2, <2>3
  <2> QED BY <2>4 DEF i, k
<1> QED BY <1>6, <1>7, <1>8, <1>9, <1>10

\* The function that triage defines exists: each rule acts on what the rules before it left.
LEMMA TriageSteps ==
    ASSUME RulesOK, NEW ticket
    PROVE  /\ DOMAIN triage(ticket) = 0..RuleCount
           /\ triage(ticket)[0] = ticket
           /\ \A n \in 1..RuleCount :
                triage(ticket)[n] = Tried(triage(ticket)[n - 1], rows.rule[list_rules[n]])
<1> DEFINE Step(before, n) == Tried(before, rows.rule[list_rules[n]])
           Upto(f, m) == /\ DOMAIN f = 0..m /\ f = [n \in 0..m |-> f[n]] /\ f[0] = ticket
                         /\ \A n \in 1..m : f[n] = Step(f[n - 1], n)
           T == {m \in Nat : \E f : Upto(f, m)}
<1>0. RuleCount \in Nat
  BY ListsEveryRule
<1> HIDE DEF Step
<1>1. 0 \in T
  <2>1. Upto([n \in 0..0 |-> ticket], 0)
    OBVIOUS
  <2> QED BY <2>1
<1>2. ASSUME NEW m \in Nat, m \in T
      PROVE  m + 1 \in T
  <2>1. PICK f : Upto(f, m)
    BY <1>2
  <2> DEFINE g == [n \in 0..m + 1 |-> IF n = m + 1 THEN Step(f[m], m + 1) ELSE f[n]]
  <2>2. DOMAIN g = 0..m + 1 /\ g = [n \in 0..m + 1 |-> g[n]] /\ g[0] = ticket
    BY <2>1
  <2>3. ASSUME NEW n \in 1..m + 1
        PROVE  g[n] = Step(g[n - 1], n)
    <3>1. CASE n = m + 1
      BY <3>1
    <3>2. CASE n \in 1..m
      <4>1. g[n] = f[n] /\ g[n - 1] = f[n - 1]
        BY <3>2
      <4>2. f[n] = Step(f[n - 1], n)
        BY <2>1, <3>2
      <4> QED BY <4>1, <4>2
    <3> QED BY <3>1, <3>2
  <2>4. Upto(g, m + 1)
    BY <2>2, <2>3
  <2> HIDE DEF Upto, g
  <2>5. \E h : Upto(h, m + 1)
    BY <2>4
  <2> QED BY <2>5
<1>3. PICK f : Upto(f, RuleCount)
  <2> HIDE DEF Upto
  <2>1. \A m \in Nat : m \in T => m + 1 \in T
    BY <1>2
  <2> HIDE DEF T
  <2>2. RuleCount \in T
    BY <1>0, <1>1, <2>1, Induction
  <2> QED BY <2>2 DEF T
<1> DEFINE After(h) == [n \in 0..RuleCount |-> IF n = 0 THEN ticket ELSE Step(h[n - 1], n)]
<1>4. f = After(f)
  <2>1. ASSUME NEW n \in 0..RuleCount
        PROVE  f[n] = IF n = 0 THEN ticket ELSE Step(f[n - 1], n)
    <3>1. n = 0 \/ n \in 1..RuleCount
      BY <1>0
    <3> QED BY <1>3, <3>1
  <2>2. f = [n \in 0..RuleCount |-> f[n]]
    BY <1>3
  <2> QED BY <2>1, <2>2
<1>5. triage(ticket) = CHOOSE h : h = After(h)
  BY DEF triage, RuleCount, Rules, Step
<1> HIDE DEF After
<1>6. triage(ticket) = After(triage(ticket))
  BY <1>4, <1>5
<1>7. DOMAIN triage(ticket) = 0..RuleCount /\ triage(ticket)[0] = ticket
      /\ \A n \in 1..RuleCount : triage(ticket)[n] = Step(triage(ticket)[n - 1], n)
  BY <1>0, <1>6 DEF After
<1> QED BY <1>7 DEF Step

\* What triage leaves of a ticket: a queue that exists, and all that no rule sets.
LEMMA TriageKeeps ==
    ASSUME RulesOK, NEW ticket, NEW columns, DOMAIN ticket = columns,
           "team" \in columns => ticket.team \in Team \cup {None},
           NEW n \in 0..RuleCount, NEW left, left = triage(ticket)[n]
    PROVE  /\ DOMAIN left = columns
           /\ "team" \in columns => left.team \in Team \cup {None}
           /\ \A c \in columns \ {"priority", "team", "level"} : left[c] = ticket[c]
<1> DEFINE Kept(after) ==
             /\ DOMAIN after = columns
             /\ "team" \in columns => after.team \in Team \cup {None}
             /\ \A c \in columns \ {"priority", "team", "level"} : after[c] = ticket[c]
           T == {k \in Nat : k <= RuleCount => Kept(triage(ticket)[k])}
<1>0. RuleCount \in Nat
  BY ListsEveryRule
<1>1. 0 \in T
  BY TriageSteps
<1>2. ASSUME NEW k \in Nat, k \in T
      PROVE  k + 1 \in T
  <2> DEFINE before == triage(ticket)[k]
             rule == rows.rule[list_rules[k + 1]]
  <2> SUFFICES ASSUME k + 1 <= RuleCount
               PROVE  Kept(triage(ticket)[k + 1])
    OBVIOUS
  <2>1. k + 1 \in 1..RuleCount /\ (k + 1) - 1 = k /\ k <= RuleCount
    BY <1>0
  <2>2. triage(ticket)[k + 1] = Tried(before, rule)
    BY <2>1, TriageSteps
  <2>3. rule.team \in Team \cup {None}
    BY <2>1, ListsEveryRule DEF RulesOK
  <2>4. Kept(before)
    BY <1>2, <2>1
  <2> HIDE DEF rule, before
  <2>5. Kept(Tried(before, rule))
    BY <2>3, <2>4 DEF Tried, Act, Or
  <2> QED BY <2>2, <2>5
<1>3. n \in T
  <2>1. n \in Nat
    BY <1>0
  <2> HIDE DEF T
  <2> QED BY <1>1, <1>2, <2>1, Induction
<1> QED BY <1>0, <1>3

--------------------------------------------------------------------------
(* Tickets and answers *)

\* What create_ticket answers without an exception is a row of the table.
LEMMA TicketRow ==
    ASSUME IInv, NEW user \in Active, NEW data, create_ticket(data, user).error = None
    PROVE  /\ TicketOK(create_ticket(data, user).row, DOMAIN rows.item, today)
           /\ create_ticket(data, user).row.item = None
<1> DEFINE requester == Or(data.requester, user)
           opened == [requester |-> requester, category |-> data.category, keyword |-> data.keyword,
                      priority |-> _resolve_priority(data, requester),
                      team |-> Default[data.category].team, level |-> "n1", status |-> "aberto",
                      item |-> None, created |-> today, resolved |-> None, assignee |-> None,
                      verdict |-> "running"]
           row == apply_triage_rules(opened)
<1>1. _resolve_requester(data, user) = None /\ _category(data.category, data.sub) = None
  BY DEF create_ticket, Error
<1>2. requester \in User
  BY <1>1, IntakeAssumption, Constants DEF _resolve_requester, Or
<1>3. data.category \in Category /\ Default[data.category].team \in Team \cup {None}
  BY <1>1, CategoryExists, IntakeAssumption
<1>4. create_ticket(data, user).row = row
  BY <1>1 DEF create_ticket
<1>5. RulesOK /\ today \in Nat
  BY RulesAreOK, IntakeAssumption DEF IInv, TypeOK
<1> HIDE DEF requester
<1>6. /\ DOMAIN opened = TicketColumns /\ opened.team \in Team \cup {None}
      /\ opened.requester \in User /\ opened.category \in Category
      /\ opened.item = None /\ opened.created = today /\ opened.resolved = None
  BY <1>2, <1>3 DEF TicketColumns
<1> HIDE DEF opened
<1>7. /\ DOMAIN row = TicketColumns
      /\ "team" \in TicketColumns => row.team \in Team \cup {None}
      /\ \A c \in TicketColumns \ {"priority", "team", "level"} : row[c] = opened[c]
  <2>1. RuleCount \in 0..RuleCount
    BY <1>5, ListsEveryRule
  <2>2. row = triage(opened)[RuleCount]
    BY DEF row, apply_triage_rules, RuleCount, Rules
  <2> HIDE DEF row
  <2> QED BY <1>5, <1>6, <2>1, <2>2, TriageKeeps
<1> HIDE DEF row
<1>8. /\ row.requester = opened.requester /\ row.category = opened.category
      /\ row.item = opened.item /\ row.created = opened.created /\ row.resolved = opened.resolved
      /\ row.team \in Team \cup {None}
  BY <1>7 DEF TicketColumns
<1> QED BY <1>4, <1>5, <1>6, <1>7, <1>8 DEF TicketOK

LEMMA CreateTicketStep ==
    ASSUME IInv, NEW s \in Session, CreateTicket(s)
    PROVE  IInv'
<1> DEFINE c == call[s]
           outcome == create_ticket(c.data, c.user)
           x == [c EXCEPT !.at = "opening", !.user = None, !.data = outcome.row]
<1>1. UNCHANGED <<rows, lastId, parent, tickets, answers, today>>
      /\ c.at \in {"received", "validated"}
  BY DEF CreateTicket
<1>2. call' = [call EXCEPT ![s] = IF outcome.error # None
          THEN [Idle EXCEPT !.status = Status(outcome.error, Caught(call[s].at))]
          ELSE [@ EXCEPT !.at = "opening", !.user = None, !.data = outcome.row]]
  BY DEF CreateTicket
<1>3. CASE outcome.error # None
  BY <1>1, <1>2, <1>3, Replies
<1>4. CASE outcome.error = None
  <2>1. CallOK(c)
    BY DEF IInv
  <2>2. c.user \in Active /\ DOMAIN c = CallColumns /\ (c.item = 0 \/ FormOK(c))
    BY <1>1, <2>1 DEF CallOK
  <2>3. TicketOK(outcome.row, DOMAIN rows.item, today) /\ outcome.row.item = None
    BY <1>4, <2>2, TicketRow
  <2>4. call' = [call EXCEPT ![s] = x]
    BY <1>2, <1>4 DEF IInv, Shape
  <2> HIDE DEF outcome, c
  <2>5. x.at = "opening" /\ x.data = outcome.row /\ x.item = c.item /\ x.given = c.given
        /\ DOMAIN x = CallColumns
    BY <2>2 DEF CallColumns
  <2> HIDE DEF x
  <2>6. CallOK(x) /\ x.at # "opened"
    BY <2>2, <2>3, <2>5 DEF CallOK, FormOK
  <2> QED BY <1>1, <2>4, <2>6, CallStep
<1> QED BY <1>3, <1>4

\* The parts of the types that are about the tables, and those that are about requests.
LEMMA Parts ==
    ASSUME IInv
    PROVE  /\ RowsOK(rows) /\ Drawn(rows) \subseteq 1..lastId /\ lastId \in Nat
           /\ parent \in [Subcategory -> Category] /\ today \in 0..LastDay /\ today \in Nat
           /\ \A t \in DOMAIN tickets : TicketOK(tickets[t], DOMAIN rows.item, today)
           /\ DOMAIN tickets = 1..Len(tickets) /\ Len(tickets) \in Nat
           /\ DOMAIN call = Session /\ \A s \in Session : CallOK(call[s])
BY IntakeAssumption DEF IInv, Shape, TypeOK

\* A step of one request that writes tickets or answers, or of the clock.
LEMMA WriteStep ==
    ASSUME IInv, UNCHANGED <<rows, lastId, parent>>,
           today' \in 0..LastDay, today <= today', \E S : tickets' \in Seq(S),
           DOMAIN tickets \subseteq DOMAIN tickets',
           \A t \in DOMAIN tickets' : TicketOK(tickets'[t], DOMAIN rows.item, today'),
           AnswersKeepQuestions', AnswersOK', Apart',
           DOMAIN call' = Session,
           \A s \in Session : CallOK(call[s])'
    PROVE  IInv'
<1>1. TypeOK'
  BY Parts DEF TypeOK, CallOK
<1>2. Shape'
  BY Parts DEF Shape
<1> QED BY <1>1, <1>2 DEF IInv

LEMMA CommitTicketStep ==
    ASSUME IInv, NEW s \in Session, CommitTicket(s)
    PROVE  IInv'
<1> PICK c, new : c = call[s] /\ new = Len(tickets) + 1
  OBVIOUS
<1> PICK x : x = IF c.item = 0 THEN [Idle EXCEPT !.status = 201]
                 ELSE [c EXCEPT !.at = "opened", !.data = None, !.id = new]
  OBVIOUS
<1>1. /\ c.at = "opening" /\ tickets' = Append(tickets, c.data)
      /\ UNCHANGED <<rows, lastId, parent, answers, today>>
  BY DEF CommitTicket
<1>2. call' = [call EXCEPT ![s] = x]
  BY Parts DEF CommitTicket
<1>3. DOMAIN call' = Session /\ call'[s] = x /\ \A q \in Session : q # s => call'[q] = call[q]
  BY <1>2, Parts
<1>4. /\ CallOK(c) /\ DOMAIN c = CallColumns
      /\ c.item = 0 \/ FormOK(c)
      /\ TicketOK(c.data, DOMAIN rows.item, today) /\ c.data.item = None
  BY <1>1, Parts DEF CallOK
<1>5. /\ DOMAIN tickets' = 1..new /\ tickets'[new] = c.data /\ new \in Nat
      /\ \A t \in DOMAIN tickets : t \in DOMAIN tickets' /\ tickets'[t] = tickets[t] /\ t # new
      /\ \A t \in DOMAIN tickets' : t = new \/ t \in DOMAIN tickets
      /\ \E S : tickets' \in Seq(S)
  <2>1. PICK S : tickets \in Seq(S)
    BY DEF IInv, Shape
  <2>2. tickets \in Seq(S \cup {c.data}) /\ c.data \in S \cup {c.data}
    BY <2>1
  <2>3. Append(tickets, c.data) \in Seq(S \cup {c.data})
    BY <2>2
  <2>4. DOMAIN tickets = 1..Len(tickets) /\ Len(tickets) \in Nat
    BY Parts
  <2>5. /\ Len(Append(tickets, c.data)) = new /\ Append(tickets, c.data)[new] = c.data
        /\ DOMAIN Append(tickets, c.data) = 1..new
        /\ \A t \in 1..Len(tickets) : Append(tickets, c.data)[t] = tickets[t]
    BY <2>2, <2>4
  <2> QED BY <1>1, <2>3, <2>4, <2>5
<1>6. \A t \in DOMAIN tickets' : TicketOK(tickets'[t], DOMAIN rows.item, today)
  BY <1>4, <1>5, Parts
<1>7. \A a \in answers : a.ticket \in DOMAIN tickets
  BY DEF IInv, AnswersOK
<1>8. Grows
  BY <1>1, Parts DEF Grows
<1>9. \A q \in Session : CallOK(call[q])'
  <2>1. ASSUME NEW q \in Session, q # s
        PROVE  CallOK(call[q])'
    <3>1. CallOK(call[q])
      BY Parts
    <3>2. call[q].at = "opened" => /\ call[q].id \in DOMAIN tickets' /\ tickets'[call[q].id].item = None
                                   /\ \A a \in answers' : a.ticket # call[q].id
      BY <1>1, <1>5, <3>1 DEF CallOK
    <3> PICK d : d = call[q]
      OBVIOUS
    <3>3. CallOK(d)'
      BY <1>8, <3>1, <3>2, CallStays
    <3> QED BY <1>3, <2>1, <3>3
  <2>2. CallOK(call[s])'
    <3>1. CASE c.item = 0
      BY <1>3, <3>1 DEF CallOK, Idle, CallColumns
    <3>2. CASE c.item # 0
      <4>1. x.at = "opened" /\ x.id = new /\ x.item = c.item /\ x.given = c.given
            /\ DOMAIN x = CallColumns
        BY <1>4, <3>2 DEF CallColumns
      <4>2. FormOK(x)'
        BY <1>1, <1>4, <3>2, <4>1 DEF FormOK
      <4>3. x.id \in DOMAIN tickets' /\ tickets'[x.id].item = None
            /\ \A a \in answers' : a.ticket # x.id
        BY <1>1, <1>4, <1>5, <1>7, <4>1
      <4> QED BY <1>3, <4>1, <4>2, <4>3 DEF CallOK
    <3> QED BY <3>1, <3>2
  <2> QED BY <2>1, <2>2
<1>10. Apart'
  <2>1. \A q \in Session : call[q].at = "opened" => call[q].id \in DOMAIN tickets /\ call[q].id # new
    BY <1>5, Parts DEF CallOK
  <2>2. x.at = "opened" => x.id = new
    BY <1>4 DEF Idle, CallColumns
  <2>3. Apart
    BY DEF IInv
  <2>4. ASSUME NEW q \in Session, NEW r \in Session, call'[q].at = "opened", call'[r].at = "opened",
               call'[q].id = call'[r].id
        PROVE  q = r
    <3>1. CASE q # s /\ r # s
      BY <1>3, <2>3, <2>4, <3>1 DEF Apart
    <3>2. CASE q = s /\ r # s
      BY <1>3, <2>1, <2>2, <2>4, <3>2
    <3>3. CASE q # s /\ r = s
      BY <1>3, <2>1, <2>2, <2>4, <3>3
    <3> QED BY <3>1, <3>2, <3>3
  <2> QED BY <2>4 DEF Apart
<1>11. AnswersKeepQuestions' /\ AnswersOK'
  BY <1>1, <1>5, <1>7 DEF IInv, AnswersKeepQuestions, AnswersOK
<1>12. today' \in 0..LastDay /\ today <= today'
  BY <1>1, Parts
<1> QED BY <1>1, <1>3, <1>5, <1>6, <1>9, <1>10, <1>11, <1>12, WriteStep

LEMMA CommitAnswersStep ==
    ASSUME IInv, NEW s \in Session, CommitAnswers(s)
    PROVE  IInv'
<1> PICK c, x : c = call[s] /\ x = [Idle EXCEPT !.status = 201]
  OBVIOUS
<1> PICK status :
      status = IF rows.item[c.item].approval THEN "aguardando_aprovacao" ELSE tickets[c.id].status
  OBVIOUS
<1>1. /\ c.at = "opened" /\ DOMAIN c.given \subseteq DOMAIN rows.field
      /\ answers' = answers \cup {[ticket |-> c.id, field |-> f, value |-> c.given[f]] :
                                    f \in DOMAIN c.given}
      /\ UNCHANGED <<rows, lastId, parent, today>>
  BY DEF CommitAnswers, FieldGone
<1>2. DOMAIN call' = Session /\ call'[s] = x /\ \A q \in Session : q # s => call'[q] = call[q]
  BY Parts DEF CommitAnswers
<1>3. /\ FormOK(c) /\ c.id \in DOMAIN tickets /\ tickets[c.id].item = None
      /\ \A a \in answers : a.ticket # c.id
  BY <1>1, Parts DEF CallOK
<1>4. /\ DOMAIN tickets' = DOMAIN tickets
      /\ \A t \in DOMAIN tickets : t # c.id => tickets'[t] = tickets[t]
      /\ tickets'[c.id] = [tickets[c.id] EXCEPT !.item = c.item, !.status = status]
      /\ \E S : tickets' \in Seq(S)
  <2>1. PICK S : tickets \in Seq(S)
    BY DEF IInv, Shape
  <2>2. PICK new : new = [tickets[c.id] EXCEPT !.item = c.item, !.status = status]
    OBVIOUS
  <2>3. tickets' = [tickets EXCEPT ![c.id] = new]
    BY <1>3, <2>2 DEF CommitAnswers
  <2>4. tickets \in [1..Len(tickets) -> S \cup {new}] /\ Len(tickets) \in Nat
    BY <2>1
  <2>5. [tickets EXCEPT ![c.id] = new] \in [1..Len(tickets) -> S \cup {new}]
    BY <2>4
  <2>6. [tickets EXCEPT ![c.id] = new] \in Seq(S \cup {new})
    BY <2>4, <2>5, SeqDef
  <2> QED BY <1>3, <2>2, <2>3, <2>6
<1>5. \A t \in DOMAIN tickets' : TicketOK(tickets'[t], DOMAIN rows.item, today)
  <2>1. TicketOK(tickets[c.id], DOMAIN rows.item, today)
    BY <1>3, Parts
  <2>2. TicketOK(tickets'[c.id], DOMAIN rows.item, today)
    BY <1>3, <1>4, <2>1 DEF TicketOK, TicketColumns, FormOK
  <2> QED BY <1>4, <2>2, Parts
<1>6. tickets'[c.id].item = c.item
  <2>1. DOMAIN tickets[c.id] = TicketColumns
    BY <1>3, Parts DEF TicketOK
  <2> QED BY <1>4, <2>1 DEF TicketColumns
<1>7. \A a \in answers' : a \in answers \/ (a.ticket = c.id /\ a.field \in DOMAIN c.given)
  BY <1>1
<1>8. AnswersKeepQuestions'
  <2> SUFFICES ASSUME NEW a \in answers'
               PROVE  /\ a.field \in DOMAIN rows'.field
                      /\ rows'.field[a.field].item = tickets'[a.ticket].item
    BY DEF AnswersKeepQuestions
  <2>1. CASE a \in answers
    BY <1>1, <1>3, <1>4, <2>1 DEF IInv, AnswersKeepQuestions, AnswersOK
  <2>2. CASE a.ticket = c.id /\ a.field \in DOMAIN c.given
    BY <1>1, <1>3, <1>6, <2>2 DEF FormOK
  <2> QED BY <1>7, <2>1, <2>2
<1>9. AnswersOK'
  BY <1>3, <1>4, <1>7 DEF IInv, AnswersOK
<1>10. \A q \in Session : CallOK(call[q])'
  <2>1. Grows
    BY <1>1, Parts DEF Grows
  <2>2. ASSUME NEW q \in Session, q # s
        PROVE  CallOK(call[q])'
    <3> PICK d : d = call[q]
      OBVIOUS
    <3>1. CallOK(d) /\ (d.at = "opened" => d.id # c.id)
      BY <1>1, <2>2, Parts DEF IInv, Apart
    <3>2. d.at = "opened" => /\ d.id \in DOMAIN tickets' /\ tickets'[d.id].item = None
                             /\ \A a \in answers' : a.ticket # d.id
      BY <1>4, <1>7, <3>1 DEF CallOK
    <3>3. CallOK(d)'
      BY <2>1, <3>1, <3>2, CallStays
    <3> QED BY <1>2, <2>2, <3>3
  <2>3. CallOK(call[s])'
    BY <1>2 DEF CallOK, Idle, CallColumns
  <2> QED BY <2>2, <2>3
<1>11. Apart'
  BY <1>2 DEF IInv, Apart, Idle
<1>12. today' \in 0..LastDay /\ today <= today'
  BY <1>1, Parts
<1> QED BY <1>1, <1>2, <1>4, <1>5, <1>8, <1>9, <1>10, <1>11, <1>12, WriteStep

LEMMA ServerErrorStep ==
    ASSUME IInv, NEW s \in Session, ServerError(s)
    PROVE  IInv'
BY Replies DEF ServerError

--------------------------------------------------------------------------
(* What administrators write *)

\* A table after a commit: rows as they were, a new one, or one that is changed.
LEMMA TableWritten ==
    ASSUME NEW plan, PlanOK(plan), NEW table, table = rows[plan.table],
           NEW written, written = Written(plan)
    PROVE  /\ \A i \in DOMAIN written :
                \/ i \in DOMAIN table /\ written[i] = table[i]
                \/ plan.op = "insert" /\ i = lastId + 1 /\ written[i] = plan.row
                \/ /\ plan.op = "update" /\ i = plan.id /\ i \in DOMAIN table
                   /\ written[i] = Merge(table[i], plan.row)
           /\ \A i \in DOMAIN table :
                i \in DOMAIN written \/ (plan.op = "delete" /\ i = plan.id)
<1>1. CASE plan.op = "insert"
  <2>1. written = [i \in DOMAIN table \cup {lastId + 1} |-> IF i = lastId + 1 THEN plan.row ELSE table[i]]
    BY <1>1 DEF Written, Put
  <2> QED BY <1>1, <2>1
<1>2. CASE plan.op = "update" /\ plan.id \in DOMAIN table
  <2>1. written = [i \in DOMAIN table \cup {plan.id} |->
                     IF i = plan.id THEN Merge(table[plan.id], plan.row) ELSE table[i]]
    BY <1>2 DEF Written, Put
  <2> QED BY <1>2, <2>1
<1>3. CASE plan.op \in {"update", "delete"} /\ ~(plan.op = "update" /\ plan.id \in DOMAIN table)
  <2>1. written = [id \in {i \in DOMAIN table : plan.op = "update" \/ i # plan.id} |-> table[id]]
    BY <1>3 DEF Written
  <2> QED BY <1>3, <2>1
<1> QED BY <1>1, <1>2, <1>3 DEF PlanOK

\* The row that an UPDATE leaves.
LEMMA Merged ==
    ASSUME NEW row, NEW data, NEW c \in DOMAIN row
    PROVE  /\ DOMAIN Merge(row, data) = DOMAIN row
           /\ Merge(row, data)[c] = IF c \in DOMAIN data THEN data[c] ELSE row[c]
BY DEF Merge

\* What a plan makes of the rows: rows still, and no item, no answered question lost.
FollowsPlan(plan, r) ==
  /\ RowsOK(r) /\ DOMAIN rows.item \subseteq DOMAIN r.item
  /\ \A f \in DOMAIN r.field : f \in DOMAIN rows.field \/ (plan.op = "insert" /\ f = lastId + 1)
  /\ \A f \in DOMAIN r.field : f \in DOMAIN rows.field =>
       f = lastId + 1 \/ r.field[f].item = rows.field[f].item
  /\ \A a \in answers : a.field \in DOMAIN rows.field => a.field \in DOMAIN r.field
  /\ Drawn(r) \subseteq Drawn(rows) \cup (IF plan.op = "insert" THEN {lastId + 1} ELSE {})

\* A commit keeps every row a row of its table, and every field with its item.
LEMMA RowsWritten ==
    ASSUME IInv, NEW plan, PlanOK(plan), ~Refused(plan),
           NEW r, r = [rows EXCEPT ![plan.table] = Written(plan)]
    PROVE  FollowsPlan(plan, r)
<1> PICK written, table : written = Written(plan) /\ table = rows[plan.table]
  OBVIOUS
<1>0. RowsOK(rows) /\ DOMAIN rows = Tables /\ plan.table \in Tables
      /\ rows.item = rows["item"] /\ rows.rule = rows["rule"] /\ rows.field = rows["field"]
  BY Parts DEF RowsOK, Tables, PlanOK, InsertOK, UpdateOK
<1>1. /\ DOMAIN r = Tables /\ r[plan.table] = written
      /\ \A t \in Tables : t # plan.table => r[t] = rows[t]
  BY <1>0
<1>2. /\ \A i \in DOMAIN written :
           \/ i \in DOMAIN table /\ written[i] = table[i]
           \/ plan.op = "insert" /\ i = lastId + 1 /\ written[i] = plan.row
           \/ /\ plan.op = "update" /\ i = plan.id /\ i \in DOMAIN table
              /\ written[i] = Merge(table[i], plan.row)
      /\ \A i \in DOMAIN table : i \in DOMAIN written \/ (plan.op = "delete" /\ i = plan.id)
  BY TableWritten
<1>3. plan.op = "update" =>
        \A c \in DOMAIN plan.row \cap Required(plan.table) : plan.row[c] # None
  BY DEF Refused
<1>4. Drawn(r) \subseteq Drawn(rows) \cup (IF plan.op = "insert" THEN {lastId + 1} ELSE {})
  <2>1. \A i \in DOMAIN written : i \in DOMAIN table \/ (plan.op = "insert" /\ i = lastId + 1)
    BY <1>2
  <2>2. \A t \in Tables : \A i \in DOMAIN r[t] :
          i \in DOMAIN rows[t] \/ (plan.op = "insert" /\ i = lastId + 1)
    BY <1>1, <2>1
  <2>3. \A i \in Drawn(r) : \E t \in Tables : i \in DOMAIN r[t]
    BY <1>1 DEF Drawn
  <2>4. \A i, t : t \in Tables /\ i \in DOMAIN rows[t] => i \in Drawn(rows)
    BY <1>0 DEF Drawn
  <2> QED BY <2>2, <2>3, <2>4
<1>5. CASE plan.table = "rule"
  <2>1. r.rule = written /\ r.item = rows.item /\ r.field = rows.field /\ table = rows.rule
    BY <1>0, <1>1, <1>5 DEF Tables
  <2>2. ASSUME NEW i \in DOMAIN written
        PROVE  /\ DOMAIN written[i] = RuleColumns /\ written[i].order \in Int
               /\ written[i].category \in Category \cup {None}
               /\ written[i].team \in Team \cup {None}
    <3>1. CASE i \in DOMAIN table /\ written[i] = table[i]
      BY <1>0, <2>1, <3>1 DEF RowsOK
    <3>2. CASE plan.op = "insert" /\ written[i] = plan.row
      BY <1>5, <3>2 DEF PlanOK, InsertOK
    <3>3. CASE plan.op = "update" /\ i \in DOMAIN table /\ written[i] = Merge(table[i], plan.row)
      <4> PICK row, data : row = table[i] /\ data = plan.row
        OBVIOUS
      <4>1. /\ DOMAIN row = RuleColumns /\ row.order \in Int
            /\ row.category \in Category \cup {None} /\ row.team \in Team \cup {None}
        BY <1>0, <2>1, <3>3 DEF RowsOK
      <4>2. /\ "order" \in DOMAIN data => data.order \in Int \cup {None} /\ data.order # None
            /\ "category" \in DOMAIN data => data.category \in Category \cup {None}
            /\ "team" \in DOMAIN data => data.team \in Team \cup {None}
        BY <1>3, <1>5, <3>3 DEF PlanOK, UpdateOK, Required
      <4>3. \A c \in {"order", "category", "team"} :
              Merge(row, data)[c] = IF c \in DOMAIN data THEN data[c] ELSE row[c]
        BY <4>1, Merged DEF RuleColumns
      <4>4. DOMAIN Merge(row, data) = RuleColumns
        BY <4>1 DEF Merge
      <4> QED BY <3>3, <4>1, <4>2, <4>3, <4>4
    <3> QED BY <1>2, <3>1, <3>2, <3>3
  <2>3. RowsOK(r)
    BY <1>0, <1>1, <2>1, <2>2 DEF RowsOK, Tables
  <2> QED BY <1>4, <2>1, <2>3 DEF FollowsPlan
<1>6. CASE plan.table = "item"
  <2>1. r.item = written /\ r.rule = rows.rule /\ r.field = rows.field /\ table = rows.item
    BY <1>0, <1>1, <1>6 DEF Tables
  <2>2. ASSUME NEW i \in DOMAIN written
        PROVE  DOMAIN written[i] = ItemColumns /\ written[i].category \in Category
    <3>1. CASE i \in DOMAIN table /\ written[i] = table[i]
      BY <1>0, <2>1, <3>1 DEF RowsOK
    <3>2. CASE plan.op = "insert" /\ written[i] = plan.row
      BY <1>6, <3>2 DEF PlanOK, InsertOK
    <3>3. CASE plan.op = "update" /\ i \in DOMAIN table /\ written[i] = Merge(table[i], plan.row)
      <4> PICK row, data : row = table[i] /\ data = plan.row
        OBVIOUS
      <4>1. DOMAIN row = ItemColumns /\ row.category \in Category
        BY <1>0, <2>1, <3>3 DEF RowsOK
      <4>2. "category" \in DOMAIN data => data.category \in Category \cup {None} /\ data.category # None
        BY <1>3, <1>6, <3>3 DEF PlanOK, UpdateOK, Required
      <4>3. /\ DOMAIN Merge(row, data) = ItemColumns
            /\ Merge(row, data).category = IF "category" \in DOMAIN data THEN data.category
                                           ELSE row.category
        <5>1. "category" \in DOMAIN row
          BY <4>1 DEF ItemColumns
        <5> QED BY <4>1, <5>1, Merged
      <4> QED BY <3>3, <4>1, <4>2, <4>3
    <3> QED BY <1>2, <3>1, <3>2, <3>3
  <2>3. DOMAIN rows.item \subseteq DOMAIN r.item
    BY <1>2, <1>6, <2>1 DEF PlanOK
  <2>4. RowsOK(r)
    BY <1>0, <1>1, <2>1, <2>2, <2>3 DEF RowsOK, Tables
  <2> QED BY <1>4, <2>1, <2>3, <2>4 DEF FollowsPlan
<1>7. CASE plan.table = "field"
  <2>1. r.field = written /\ r.rule = rows.rule /\ r.item = rows.item /\ table = rows.field
    BY <1>0, <1>1, <1>7 DEF Tables
  <2>2. ASSUME NEW i \in DOMAIN written
        PROVE  /\ DOMAIN written[i] = FieldColumns /\ written[i].item \in DOMAIN rows.item
               /\ \/ i \in DOMAIN table /\ written[i].item = table[i].item
                  \/ plan.op = "insert" /\ i = lastId + 1
    <3>1. CASE i \in DOMAIN table /\ written[i] = table[i]
      BY <1>0, <2>1, <3>1 DEF RowsOK
    <3>2. CASE plan.op = "insert" /\ i = lastId + 1 /\ written[i] = plan.row
      BY <1>7, <3>2 DEF PlanOK, InsertOK
    <3>3. CASE plan.op = "update" /\ i \in DOMAIN table /\ written[i] = Merge(table[i], plan.row)
      <4> PICK row, data : row = table[i] /\ data = plan.row
        OBVIOUS
      <4>1. DOMAIN row = FieldColumns /\ row.item \in DOMAIN rows.item
        BY <1>0, <2>1, <3>3 DEF RowsOK
      <4>2. "item" \notin DOMAIN data
        BY <1>7, <3>3 DEF PlanOK, UpdateOK
      <4>3. DOMAIN Merge(row, data) = FieldColumns /\ Merge(row, data).item = row.item
        BY <4>1, <4>2, Merged DEF FieldColumns
      <4> QED BY <3>3, <4>1, <4>3
    <3> QED BY <1>2, <3>1, <3>2, <3>3
  <2>3. RowsOK(r)
    BY <1>0, <1>1, <2>1, <2>2 DEF RowsOK, Tables
  <2>4. ASSUME NEW a \in answers, a.field \in DOMAIN rows.field
        PROVE  a.field \in DOMAIN r.field
    <3>1. plan.op = "delete" => a.field # plan.id
      BY <1>7 DEF Refused
    <3> QED BY <1>2, <2>1, <2>4, <3>1
  <2> QED BY <1>4, <2>1, <2>2, <2>3, <2>4 DEF FollowsPlan
<1> QED BY <1>0, <1>5, <1>6, <1>7 DEF Tables

LEMMA CommitStep ==
    ASSUME IInv, NEW s \in Session, Commit(s)
    PROVE  IInv'
<1> PICK plan : plan = call[s].plan
  OBVIOUS
<1> PICK x : x = [Idle EXCEPT !.status = IF plan.op = "update" /\ Unknown(plan.table, plan.id) THEN 500
                                         ELSE call[s].status]
  OBVIOUS
<1>1. /\ PlanOK(plan) /\ ~Refused(plan)
      /\ rows' = [rows EXCEPT ![plan.table] = Written(plan)]
      /\ lastId' = IF plan.op = "insert" THEN lastId + 1 ELSE lastId
      /\ UNCHANGED <<parent, tickets, answers, today>>
  BY Parts DEF Commit, CallOK
<1>2. DOMAIN call' = Session /\ call'[s] = x /\ \A q \in Session : q # s => call'[q] = call[q]
  BY Parts DEF Commit
<1>3. lastId \in Nat /\ lastId' \in Nat /\ lastId <= lastId' /\ Drawn(rows) \subseteq 1..lastId
  BY <1>1, Parts
<1>4. /\ RowsOK(rows') /\ DOMAIN rows.item \subseteq DOMAIN rows'.item
      /\ \A f \in DOMAIN rows'.field : f \in DOMAIN rows.field \/ (plan.op = "insert" /\ f = lastId + 1)
      /\ \A f \in DOMAIN rows'.field : f \in DOMAIN rows.field =>
           f = lastId + 1 \/ rows'.field[f].item = rows.field[f].item
      /\ \A a \in answers : a.field \in DOMAIN rows.field => a.field \in DOMAIN rows'.field
      /\ Drawn(rows') \subseteq Drawn(rows) \cup (IF plan.op = "insert" THEN {lastId + 1} ELSE {})
  <2> PICK r : r = [rows EXCEPT ![plan.table] = Written(plan)]
    OBVIOUS
  <2>1. FollowsPlan(plan, r)
    BY <1>1, RowsWritten
  <2>2. r = rows'
    BY <1>1
  <2> QED BY <2>1, <2>2 DEF FollowsPlan
<1>5. Drawn(rows') \subseteq 1..lastId'
  <2>1. CASE plan.op = "insert"
    <3>1. lastId' = lastId + 1 /\ Drawn(rows') \subseteq Drawn(rows) \cup {lastId + 1}
      BY <1>1, <1>4, <2>1
    <3> QED BY <1>3, <3>1
  <2>2. CASE plan.op # "insert"
    BY <1>1, <1>3, <1>4, <2>2
  <2> QED BY <2>1, <2>2
<1>6. Grows
  <2>1. \A f \in 1..lastId : f # lastId + 1
    BY <1>3
  <2> QED BY <1>1, <1>3, <1>4, <2>1, Parts DEF Grows
<1>7. \A t \in DOMAIN tickets' : TicketOK(tickets'[t], DOMAIN rows'.item, today')
  BY <1>1, <1>4, Parts, TicketStays
<1>8. AnswersKeepQuestions' /\ AnswersOK'
  <2>1. DOMAIN rows.field \subseteq 1..lastId
    BY DEF IInv, TypeOK, RowsOK, Drawn
  <2>2. \A f \in DOMAIN rows.field : f # lastId + 1
    BY <1>3, <2>1
  <2> QED BY <1>1, <1>4, <2>2 DEF IInv, AnswersKeepQuestions, AnswersOK
<1>9. \A q \in Session : CallOK(call[q])'
  <2>1. ASSUME NEW q \in Session, q # s
        PROVE  CallOK(call[q])'
    <3> PICK d : d = call[q]
      OBVIOUS
    <3>1. CallOK(d)
      BY Parts
    <3>2. CallOK(d)'
      BY <1>1, <1>6, <3>1, CallStays DEF CallOK
    <3> QED BY <1>2, <2>1, <3>2
  <2>2. CallOK(call[s])'
    BY <1>2 DEF CallOK, Idle, CallColumns
  <2> QED BY <2>1, <2>2
<1>10. Apart'
  BY <1>2 DEF IInv, Apart, Idle
<1>11. Shape'
  BY <1>1, <1>2, <1>3 DEF IInv, Shape
<1>12. TypeOK'
  BY <1>1, <1>4, <1>5, <1>7, <1>9, Parts DEF TypeOK, CallOK
<1> QED BY <1>8, <1>9, <1>10, <1>11, <1>12 DEF IInv

--------------------------------------------------------------------------
(* The other steps, and the first state *)

LEMMA QuietStep ==
    ASSUME IInv, UNCHANGED <<rows, lastId, parent, tickets, answers, today, call>>
    PROVE  IInv'
<1>1. \A c : CallOK(c) <=> CallOK(c)'
  BY DEF CallOK, PlanOK, InsertOK, UpdateOK, FormOK, TicketOK
<1>2. \A q \in Session : CallOK(call[q])'
  BY <1>1, Parts
<1>3. TypeOK'
  BY DEF IInv, TypeOK, RowsOK, Drawn, TicketOK
<1>4. Shape' /\ AnswersOK' /\ AnswersKeepQuestions' /\ Apart'
  BY DEF IInv, Shape, AnswersOK, AnswersKeepQuestions, Apart
<1> QED BY <1>2, <1>3, <1>4 DEF IInv

\* A step that no request takes: what the requests know holds still.
LEMMA OthersStay ==
    ASSUME IInv, UNCHANGED <<rows, lastId, answers, call>>, Grows,
           DOMAIN tickets' = DOMAIN tickets,
           \A t \in DOMAIN tickets : tickets'[t].item = tickets[t].item
    PROVE  /\ \A q \in Session : CallOK(call[q])'
           /\ AnswersKeepQuestions' /\ AnswersOK' /\ Apart'
<1>1. ASSUME NEW q \in Session
      PROVE  CallOK(call[q])'
  <2> PICK d : d = call[q]
    OBVIOUS
  <2>1. CallOK(d)
    BY Parts
  <2>2. d.at = "opened" => /\ d.id \in DOMAIN tickets' /\ tickets'[d.id].item = None
                           /\ \A a \in answers' : a.ticket # d.id
    BY <2>1 DEF CallOK
  <2>3. CallOK(d)'
    BY <2>1, <2>2, CallStays
  <2> QED BY <2>3
<1> QED BY <1>1 DEF IInv, AnswersKeepQuestions, AnswersOK, Apart

LEMMA UpdateSubcategoryStep ==
    ASSUME IInv, NEW sub \in Subcategory, NEW category \in Category, update_subcategory(sub, category)
    PROVE  IInv'
<1>1. parent' \in [Subcategory -> Category]
      /\ UNCHANGED <<rows, lastId, tickets, answers, today, call>>
  BY Parts DEF update_subcategory
<1>2. Grows
  BY <1>1, Parts DEF Grows
<1>3. (\A q \in Session : CallOK(call[q])') /\ AnswersKeepQuestions' /\ AnswersOK' /\ Apart'
  BY <1>1, <1>2, OthersStay
<1>4. TypeOK'
  BY <1>1, <1>3, Parts DEF TypeOK, CallOK
<1>5. Shape'
  BY <1>1 DEF IInv, Shape
<1> QED BY <1>3, <1>4, <1>5 DEF IInv

LEMMA TickStep ==
    ASSUME IInv, Tick
    PROVE  IInv'
<1>1. today' = today + 1 /\ today < LastDay /\ UNCHANGED <<rows, lastId, parent, tickets, answers, call>>
  BY DEF Tick
<1>2. today' \in 0..LastDay /\ today <= today' /\ today' \in Nat
  BY <1>1, Parts, IntakeAssumption
<1>3. Grows
  BY <1>1, <1>2, Parts DEF Grows
<1>4. (\A q \in Session : CallOK(call[q])') /\ AnswersKeepQuestions' /\ AnswersOK' /\ Apart'
  BY <1>1, <1>3, OthersStay
<1>5. \A t \in DOMAIN tickets' : TicketOK(tickets'[t], DOMAIN rows.item, today')
  BY <1>1, <1>2, Parts, TicketStays
<1>6. \E S : tickets' \in Seq(S)
  BY <1>1 DEF IInv, Shape
<1> QED BY <1>1, <1>2, <1>4, <1>5, <1>6, Parts, WriteStep

\* A step that changes one ticket as a resolution or a clock that runs out does.
LEMMA TicketStep ==
    ASSUME IInv, UNCHANGED <<rows, lastId, parent, answers, today, call>>,
           NEW t \in DOMAIN tickets, NEW new, tickets' = [tickets EXCEPT ![t] = new],
           DOMAIN new = TicketColumns, new.requester = tickets[t].requester,
           new.category = tickets[t].category, new.team = tickets[t].team,
           new.item = tickets[t].item, new.created = tickets[t].created,
           new.resolved \in {tickets[t].resolved, today}
    PROVE  IInv'
<1>1. TicketOK(tickets[t], DOMAIN rows.item, today)
  BY Parts
<1>2. TicketOK(new, DOMAIN rows.item, today)
  BY <1>1, Parts DEF TicketOK
<1>3. /\ DOMAIN tickets' = DOMAIN tickets /\ tickets'[t] = new
      /\ \A u \in DOMAIN tickets : u # t => tickets'[u] = tickets[u]
  OBVIOUS
<1>4. \E S : tickets' \in Seq(S)
  <2>1. PICK S : tickets \in Seq(S)
    BY DEF IInv, Shape
  <2>2. tickets \in [1..Len(tickets) -> S \cup {new}] /\ Len(tickets) \in Nat
    BY <2>1
  <2>3. [tickets EXCEPT ![t] = new] \in [1..Len(tickets) -> S \cup {new}]
    BY <2>2
  <2>4. [tickets EXCEPT ![t] = new] \in Seq(S \cup {new})
    BY <2>2, <2>3, SeqDef
  <2> QED BY <2>4
<1>5. Grows
  BY Parts DEF Grows
<1>6. (\A q \in Session : CallOK(call[q])') /\ AnswersKeepQuestions' /\ AnswersOK' /\ Apart'
  <2>1. \A u \in DOMAIN tickets : tickets'[u].item = tickets[u].item
    BY <1>3
  <2> QED BY <1>3, <1>5, <2>1, OthersStay
<1>7. \A u \in DOMAIN tickets' : TicketOK(tickets'[u], DOMAIN rows.item, today')
  BY <1>2, <1>3, Parts
<1>8. today' \in 0..LastDay /\ today <= today'
  BY Parts
<1> QED BY <1>3, <1>4, <1>6, <1>7, <1>8, Parts, WriteStep

LEMMA ClockStep ==
    ASSUME IInv, NEW t \in All, ResolveTicket(t) \/ EditPolicy(t) \/ RunsOut(t)
    PROVE  IInv'
<1>1. UNCHANGED <<rows, lastId, parent, answers, today, call>>
  BY DEF ResolveTicket, EditPolicy, RunsOut
<1>2. t \in DOMAIN tickets /\ DOMAIN tickets[t] = TicketColumns
  BY Parts DEF All, TicketOK
<1>3. CASE ResolveTicket(t)
  <2>a. PICK technician \in Staff \cup {None}, verdict \in {"met", "breached"} :
       tickets' = [tickets EXCEPT ![t].status = "resolvido", ![t].resolved = Or(@, today),
                                  ![t].assignee = technician, ![t].verdict = verdict]
    BY <1>3 DEF ResolveTicket
  <2>b. PICK new : new = [tickets[t] EXCEPT !.status = "resolvido", !.resolved = Or(@, today),
                                          !.assignee = technician, !.verdict = verdict]
    OBVIOUS
  <2>1. /\ DOMAIN new = TicketColumns /\ new.requester = tickets[t].requester
        /\ new.category = tickets[t].category /\ new.team = tickets[t].team
        /\ new.item = tickets[t].item /\ new.created = tickets[t].created
        /\ new.resolved \in {tickets[t].resolved, today}
    BY <1>2, <2>b DEF TicketColumns, Or
  <2>2. tickets' = [tickets EXCEPT ![t] = new]
    BY <1>2, <2>a, <2>b
  <2> QED BY <1>1, <1>2, <2>1, <2>2, TicketStep
<1>4. CASE RunsOut(t)
  <2>b. PICK new : new = [tickets[t] EXCEPT !.verdict = "breached"]
    OBVIOUS
  <2>1. /\ DOMAIN new = TicketColumns /\ new.requester = tickets[t].requester
        /\ new.category = tickets[t].category /\ new.team = tickets[t].team
        /\ new.item = tickets[t].item /\ new.created = tickets[t].created
        /\ new.resolved \in {tickets[t].resolved, today}
    BY <1>2, <2>b DEF TicketColumns
  <2>2. tickets' = [tickets EXCEPT ![t] = new]
    BY <1>2, <1>4, <2>b DEF RunsOut
  <2> QED BY <1>1, <1>2, <2>1, <2>2, TicketStep
<1>5. CASE EditPolicy(t)
  <2>b. PICK new : new = Turned(tickets[t])
    OBVIOUS
  <2>1. /\ DOMAIN new = TicketColumns /\ new.requester = tickets[t].requester
        /\ new.category = tickets[t].category /\ new.team = tickets[t].team
        /\ new.item = tickets[t].item /\ new.created = tickets[t].created
        /\ new.resolved \in {tickets[t].resolved, today}
    BY <1>2, <2>b DEF TicketColumns, Turned
  <2>2. tickets' = [tickets EXCEPT ![t] = new]
    BY <1>2, <1>5, <2>b DEF EditPolicy
  <2> QED BY <1>1, <1>2, <2>1, <2>2, TicketStep
<1> QED BY <1>3, <1>4, <1>5

\* A finite set of numbers has a last one.
LEMMA Largest ==
    ASSUME NEW S, IsFiniteSet(S), S \subseteq Int, S # {}
    PROVE  Max(S) \in S /\ \A n \in S : n <= Max(S)
<1>a. PICK R : R = {p \in S \X S : p[1] < p[2]}
  OBVIOUS
<1>b. PICK rank : rank = [i \in S |-> Cardinality({j \in S : <<j, i>> \in R})]
  OBVIOUS
<1>1. \A i, j \in S : <<i, j>> \in R <=> i < j
  BY <1>a
<1>2. Ranked(S, R, rank)
  <2>1. Ordered(S, R)
    BY <1>1 DEF Ordered
  <2> QED BY <1>b, <2>1, Places
<1>3. Cardinality(S) \in Nat /\ Cardinality(S) # 0
  BY FS_CardinalityType, FS_EmptySet
<1>4. PICK m \in S : rank[m] = Cardinality(S) - 1
  BY <1>2, <1>3 DEF Ranked
<1>5. \A n \in S : n <= m
  <2> SUFFICES ASSUME NEW n \in S, m < n
               PROVE  FALSE
    OBVIOUS
  <2>1. rank[m] < rank[n]
    BY <1>1, <1>2 DEF Ranked
  <2> QED BY <1>2, <1>3, <1>4, <2>1 DEF Ranked
<1>6. \E x \in S : \A y \in S : x >= y
  BY <1>5
<1> QED BY <1>6 DEF Max

LEMMA InitOK ==
    ASSUME Init
    PROVE  IInv
<1> PICK stock \in Stock : /\ rows = stock.rows /\ parent = stock.parent
                           /\ tickets = stock.tickets /\ today = stock.today
                           /\ calls = stock.calls
  BY DEF Init
<1>1. StockOK(stock)
  BY IntakeAssumption
<1>2. lastId \in Nat /\ Drawn(rows) \subseteq 1..lastId
  <2> PICK D : D = {0} \cup Drawn(rows)
    OBVIOUS
  <2>1. IsFiniteSet(Drawn(rows)) /\ Drawn(rows) \subseteq Nat \ {0}
    BY <1>1 DEF StockOK
  <2>2. IsFiniteSet(D) /\ D \subseteq Nat /\ D # {}
    BY <2>1, FS_AddElement
  <2>3. Max(D) \in D /\ \A n \in D : n <= Max(D)
    BY <2>2, Largest
  <2>4. lastId = Max(D)
    BY DEF Init
  <2> QED BY <2>1, <2>2, <2>3, <2>4
<1>3. \A s \in Session : CallOK(call[s]) /\ call[s].at = "idle"
  BY DEF Init, CallOK, Idle, CallColumns
<1>4. TypeOK
  BY <1>1, <1>2, <1>3 DEF TypeOK, StockOK
<1>5. Shape
  BY <1>1, <1>2 DEF Shape, Init, StockOK
<1> QED BY <1>3, <1>4, <1>5 DEF IInv, Init, AnswersKeepQuestions, AnswersOK, Apart

LEMMA NextOK ==
    ASSUME IInv, [DeskNext]_desk
    PROVE  IInv'
<1>1. ASSUME NEW s \in Session, Administer(s) \/ Open(s) \/ ServerError(s)
      PROVE  IInv'
  BY <1>1, AdministerRequests, CommitStep, TicketRequests, CreateTicketStep, CommitTicketStep,
     CommitAnswersStep, ServerErrorStep DEF Administer, Open
<1>2. CASE Next
  BY <1>1, <1>2, UpdateSubcategoryStep, TickStep DEF Next
<1>3. CASE read_dashboard_overview \/ read_technician_kpis \/ read_kpi_trend \/ read_tickets_overview
  <2>1. UNCHANGED <<rows, lastId, parent, tickets, answers, today, call>>
    BY <1>3 DEF read_dashboard_overview, read_technician_kpis, read_kpi_trend,
                read_tickets_overview, Request
  <2> QED BY <2>1, QuietStep
<1>4. CASE ReadClocks \/ ReadAgain \/ UNCHANGED desk
  <2>1. UNCHANGED <<rows, lastId, parent, tickets, answers, today, call>>
    BY <1>4 DEF ReadClocks, ReadAgain, intake, desk
  <2> QED BY <2>1, QuietStep
<1>5. CASE \E t \in All : ResolveTicket(t) \/ EditPolicy(t) \/ RunsOut(t)
  BY <1>5, ClockStep
<1> QED BY <1>2, <1>3, <1>4, <1>5 DEF DeskNext

LEMMA Invariance == DeskSpec => []IInv
<1>1. DeskInit => IInv
  BY InitOK DEF DeskInit
<1>2. IInv /\ [DeskNext]_desk => IInv'
  BY NextOK
<1> QED BY <1>1, <1>2, PTL DEF DeskSpec

\* Whatever tickets come in, whatever is edited, read and resolved meanwhile: rows keep
\* naming rows that exist, a ticket has its category, its queue and its days.
THEOREM DeskIsTyped == DeskSpec => []TypeOK
<1>1. IInv => TypeOK
  BY DEF IInv
<1> QED BY <1>1, Invariance, PTL

\* No administrator removes a question that has been answered, and no answer is stored for a
\* question of another item, however the two commits of a request from the catalog fall.
THEOREM AnswersAlwaysKeepQuestions == DeskSpec => []AnswersKeepQuestions
<1>1. IInv => AnswersKeepQuestions
  BY DEF IInv
<1> QED BY <1>1, Invariance, PTL

--------------------------------------------------------------------------
(* The last matching rule wins *)

\* The last word of some rules, when one comes after all others that set the column.
LEMMA LastWordOf ==
    ASSUME RulesOK, NEW matching, matching \subseteq Rules, NEW column, NEW ticket,
           NEW i \in Rules, rows.rule[i][column] # None,
           \A j \in matching : Before(j, i)
    PROVE  LastWord(matching \cup {i}, column, ticket) = rows.rule[i][column]
<1> DEFINE acting == {j \in matching \cup {i} : rows.rule[j][column] # None}
           Last(k) == \A j \in acting \ {k} : Before(j, k)
<1>1. i \in acting /\ Last(i)
  OBVIOUS
<1>2. \A k \in acting : Last(k) => k = i
  <2> SUFFICES ASSUME NEW k \in acting, Last(k), k # i
               PROVE  FALSE
    OBVIOUS
  <2>1. Before(i, k) /\ Before(k, i) /\ k \in Rules
    OBVIOUS
  <2> QED BY <2>1 DEF Before, RulesOK
<1>3. (CHOOSE k \in acting : Last(k)) = i
  BY <1>1, <1>2
<1> QED BY <1>1, <1>3 DEF LastWord

\* The last word of the rules that set the column.
Word(acting, column, ticket) ==
  IF acting = {} THEN ticket[column]
  ELSE rows.rule[CHOOSE i \in acting : \A j \in acting \ {i} : Before(j, i)][column]

\* Rules that do not set a column have no say about it.
LEMMA NoWordOf ==
    ASSUME NEW matching, NEW column, NEW ticket, NEW i, rows.rule[i][column] = None
    PROVE  LastWord(matching \cup {i}, column, ticket) = LastWord(matching, column, ticket)
<1>1. {j \in matching \cup {i} : rows.rule[j][column] # None}
        = {j \in matching : rows.rule[j][column] # None}
  OBVIOUS
<1>2. \A M : LastWord(M, column, ticket)
               = Word({j \in M : rows.rule[j][column] # None}, column, ticket)
  BY DEF LastWord, Word
<1> QED BY <1>1, <1>2

\* The rules among the first n that matched when their turn came.
Matched(ticket, n) ==
  {list_rules[m] : m \in {k \in 1..n : Matches(rows.rule[list_rules[k]], triage(ticket)[k - 1])}}

\* After n rules each column is the last word of those that matched.
LEMMA ColumnsSoFar ==
    ASSUME RulesOK, NEW ticket, DOMAIN ticket = TicketColumns, ticket.team \in Team \cup {None},
           NEW column \in {"priority", "team", "level"}
    PROVE  \A n \in 0..RuleCount :
             triage(ticket)[n][column] = LastWord(Matched(ticket, n), column, ticket)
<1> DEFINE T == {n \in Nat : n <= RuleCount =>
                    triage(ticket)[n][column] = LastWord(Matched(ticket, n), column, ticket)}
<1>0. RuleCount \in Nat
  BY ListsEveryRule
<1>1. 0 \in T
  <2>1. Matched(ticket, 0) = {}
    BY DEF Matched
  <2>2. LastWord({}, column, ticket) = ticket[column]
    BY DEF LastWord
  <2> QED BY <2>1, <2>2, TriageSteps
<1>2. ASSUME NEW n \in Nat, n \in T
      PROVE  n + 1 \in T
  <2> SUFFICES ASSUME n + 1 <= RuleCount
               PROVE  triage(ticket)[n + 1][column]
                        = LastWord(Matched(ticket, n + 1), column, ticket)
    OBVIOUS
  <2>1. n + 1 \in 1..RuleCount /\ (n + 1) - 1 = n /\ n \in 0..RuleCount
    BY <1>0
  <2>a. PICK before, i : before = triage(ticket)[n] /\ i = list_rules[n + 1]
    OBVIOUS
  <2>2. triage(ticket)[n + 1] = Tried(before, rows.rule[i])
    BY <2>a, <2>1, TriageSteps
  <2>3. before[column] = LastWord(Matched(ticket, n), column, ticket)
    BY <1>2, <2>a, <2>1
  <2>4. DOMAIN before = TicketColumns
    BY <2>a, <2>1, TriageKeeps
  <2>5. i \in Rules
    BY <2>a, <2>1, ListsEveryRule
  <2>6. \A j \in Matched(ticket, n) : j \in Rules /\ Before(j, i)
    <3> SUFFICES ASSUME NEW j \in Matched(ticket, n)
                 PROVE  j \in Rules /\ Before(j, i)
      OBVIOUS
    <3>1. PICK m \in 1..n : j = list_rules[m]
      BY DEF Matched
    <3>2. m \in 1..RuleCount /\ m < n + 1
      BY <1>0, <2>1
    <3> QED BY <2>a, <2>1, <3>1, <3>2, ListsEveryRule
  <2>7. CASE ~Matches(rows.rule[i], before)
    <3>1. Matched(ticket, n + 1) = Matched(ticket, n)
      <4>1. \A k \in 1..n + 1 : k = n + 1 \/ k \in 1..n
        OBVIOUS
      <4>2. {k \in 1..n + 1 : Matches(rows.rule[list_rules[k]], triage(ticket)[k - 1])}
              = {k \in 1..n : Matches(rows.rule[list_rules[k]], triage(ticket)[k - 1])}
        BY <2>a, <2>1, <2>7, <4>1
      <4> QED BY <4>2 DEF Matched
    <3>2. Tried(before, rows.rule[i]) = before
      BY <2>7 DEF Tried
    <3> QED BY <2>2, <2>3, <3>1, <3>2
  <2>8. CASE Matches(rows.rule[i], before)
    <3>1. Matched(ticket, n + 1) = Matched(ticket, n) \cup {i}
      <4> DEFINE F(q) == {k \in 1..q : Matches(rows.rule[list_rules[k]], triage(ticket)[k - 1])}
      <4>1. \A k \in 1..n + 1 : k = n + 1 \/ k \in 1..n
        OBVIOUS
      <4>2. F(n + 1) = F(n) \cup {n + 1}
        BY <2>a, <2>1, <2>8, <4>1
      <4> HIDE DEF F
      <4>3. {list_rules[m] : m \in F(n + 1)} = {list_rules[m] : m \in F(n)} \cup {list_rules[n + 1]}
        BY <4>2
      <4> QED BY <2>a, <4>3 DEF Matched, F
    <3>2. Tried(before, rows.rule[i])[column]
            = IF rows.rule[i][column] = None THEN before[column] ELSE rows.rule[i][column]
      <4>1. Tried(before, rows.rule[i]) = Act(before, rows.rule[i])
        BY <2>8 DEF Tried
      <4> QED BY <2>4, <4>1 DEF Act, Or, TicketColumns
    <3>3. CASE rows.rule[i][column] = None
      BY <2>2, <2>3, <3>1, <3>2, <3>3, NoWordOf
    <3>4. CASE rows.rule[i][column] # None
      <4>1. LastWord(Matched(ticket, n) \cup {i}, column, ticket) = rows.rule[i][column]
        BY <2>5, <2>6, <3>4, LastWordOf
      <4> QED BY <2>2, <3>1, <3>2, <3>4, <4>1
    <3> QED BY <3>3, <3>4
  <2> QED BY <2>7, <2>8
<1>3. \A n \in Nat : n \in T
  <2> HIDE DEF T
  <2> QED BY <1>1, <1>2, Induction
<1> QED BY <1>0, <1>3

\* The row that create_ticket gives is explained by the rules that matched.
LEMMA Explained ==
    ASSUME IInv, NEW user \in Active, NEW data, create_ticket(data, user).error = None
    PROVE  \E matching \in SUBSET DOMAIN rows.rule :
             Explains(matching, Opened(data, user), create_ticket(data, user).row)
<1>a. PICK requester : requester = Or(data.requester, user)
  OBVIOUS
<1>b. PICK ticket : ticket =
        [requester |-> requester, category |-> data.category, keyword |-> data.keyword,
         priority |-> _resolve_priority(data, requester),
         team |-> Default[data.category].team, level |-> "n1", status |-> "aberto",
         item |-> None, created |-> today, resolved |-> None, assignee |-> None,
         verdict |-> "running"]
  OBVIOUS
<1>c. PICK opened : opened = Opened(data, user)
  OBVIOUS
<1>1. _resolve_requester(data, user) = None /\ _category(data.category, data.sub) = None
  BY DEF create_ticket, Error
<1>2. create_ticket(data, user).row = apply_triage_rules(ticket)
  BY <1>1, <1>a, <1>b DEF create_ticket
<1>3. ticket.team \in Team \cup {None}
  BY <1>1, <1>b, CategoryExists, IntakeAssumption
<1>4. RulesOK /\ RuleCount \in Nat
  BY RulesAreOK, ListsEveryRule
<1>5. /\ DOMAIN ticket = TicketColumns
      /\ \A column \in {"priority", "team", "level", "category", "keyword"} :
           opened[column] = ticket[column]
      /\ DOMAIN opened = {"priority", "team", "level", "category", "keyword"}
  BY <1>a, <1>b, <1>c DEF Opened, TicketColumns
<1>6. \A M, column : column \in {"priority", "team", "level"} =>
        LastWord(M, column, opened) = LastWord(M, column, ticket)
  BY <1>5 DEF LastWord
<1>d. PICK matching : matching = Matched(ticket, RuleCount)
  OBVIOUS
<1>7. matching \in SUBSET DOMAIN rows.rule
  BY <1>d, <1>4, ListsEveryRule DEF Matched, Rules
<1>8. ASSUME NEW i \in DOMAIN rows.rule
      PROVE  i \in matching <=>
               Matches(rows.rule[i], [opened EXCEPT !.team =
                 LastWord({j \in matching : Before(j, i)}, "team", opened)])
  <2>1. PICK n \in 1..RuleCount : list_rules[n] = i
    BY <1>4, ListsEveryRule DEF Rules
  <2>2. n - 1 \in 0..RuleCount /\ n \in Int
    BY <1>4
  <2>a. PICK before : before = triage(ticket)[n - 1]
    OBVIOUS
  <2>3. \A m \in 1..RuleCount : list_rules[m] = i => m = n
    <3> SUFFICES ASSUME NEW m \in 1..RuleCount, list_rules[m] = i
                 PROVE  m = n
      OBVIOUS
    <3>1. (m < n <=> Before(i, i)) /\ (n < m <=> Before(i, i))
      BY <1>4, <2>1, ListsEveryRule
    <3>2. m \in Int
      BY <1>4
    <3> QED BY <2>2, <3>1, <3>2
  <2>4. i \in matching <=> Matches(rows.rule[i], before)
    BY <1>d, <2>1, <2>3, <2>a DEF Matched
  <2>5. {j \in matching : Before(j, i)} = Matched(ticket, n - 1)
    <3>1. \A m \in 1..RuleCount : Before(list_rules[m], i) <=> m \in 1..n - 1
      <4> SUFFICES ASSUME NEW m \in 1..RuleCount
                   PROVE  Before(list_rules[m], i) <=> m \in 1..n - 1
        OBVIOUS
      <4>1. Before(list_rules[m], i) <=> m < n
        BY <1>4, <2>1, ListsEveryRule
      <4> QED BY <1>4, <2>2, <4>1
    <3>2. \A m \in 1..n - 1 : m \in 1..RuleCount
      BY <1>4, <2>2
    <3> QED BY <1>d, <3>1, <3>2 DEF Matched
  <2>6. LastWord(Matched(ticket, n - 1), "team", opened) = before.team
    BY <1>3, <1>4, <1>5, <1>6, <2>2, <2>a, ColumnsSoFar
  <2>7. before.category = ticket.category /\ before.keyword = ticket.keyword
    <3>1. \A c \in TicketColumns \ {"priority", "team", "level"} : before[c] = ticket[c]
      BY <1>3, <1>4, <1>5, <2>2, <2>a, TriageKeeps
    <3> QED BY <3>1 DEF TicketColumns
  <2>b. PICK seen : seen = [opened EXCEPT !.team = before.team]
    OBVIOUS
  <2>8. /\ seen.team = before.team /\ seen.category = before.category
        /\ seen.keyword = before.keyword
    BY <1>5, <2>7, <2>b
  <2>9. Matches(rows.rule[i], before) <=> Matches(rows.rule[i], seen)
    BY <2>8 DEF Matches, _outside_hours_matches
  <2> QED BY <2>4, <2>5, <2>6, <2>9, <2>b
<1>9. ASSUME NEW column \in {"priority", "team", "level"}
      PROVE  create_ticket(data, user).row[column] = LastWord(matching, column, opened)
  <2>1. RuleCount \in 0..RuleCount
    BY <1>4
  <2>2. triage(ticket)[RuleCount][column] = LastWord(matching, column, ticket)
    BY <1>3, <1>4, <1>5, <1>d, <2>1, ColumnsSoFar
  <2> QED BY <1>2, <1>6, <2>2 DEF apply_triage_rules, RuleCount, Rules
<1> QED BY <1>7, <1>8, <1>9, <1>c DEF Explains

\* Of one step of the desk, what it says of triage.
TriageExplained ==
  \A s \in Session :
    call[s].at \in {"received", "validated"} /\ call'[s].at = "opening" =>
      \E matching \in SUBSET DOMAIN rows.rule :
        Explains(matching, Opened(call[s].data, call[s].user), call'[s].data)

\* Only create_ticket makes a request ready to insert a ticket.
LEMMA OnlyCreates ==
    ASSUME IInv, [DeskNext]_desk, NEW s \in Session,
           call[s].at \in {"received", "validated"}, call'[s].at = "opening"
    PROVE  CreateTicket(s)
<1>1. DOMAIN call = Session
  BY Parts
<1>2. call' # call
  OBVIOUS
<1>3. ASSUME NEW q \in Session, q # s, NEW x, call' = [call EXCEPT ![q] = x]
      PROVE  FALSE
  BY <1>1, <1>3
<1>4. \A q \in Session : Receive(q) => call[q].at = "idle"
  BY DEF Receive
<1>a. \A q, plan, caught, success :
        Serve(q, plan, caught, success) => \E x : call' = [call EXCEPT ![q] = x]
  BY DEF Serve
<1>5. ASSUME NEW q \in Session, Administer(q)
      PROVE  FALSE
  <2>1. q # s
    BY <1>4, <1>5 DEF Administer, add_triage_rule, edit_triage_rule, remove_triage_rule,
       add_catalog_item, edit_catalog_item, add_catalog_item_field, edit_catalog_item_field,
       remove_catalog_item_field, Commit
  <2>2. \E x : call' = [call EXCEPT ![q] = x]
    <3>1. CASE Commit(q)
      BY <3>1 DEF Commit
    <3>2. CASE add_triage_rule(q) \/ edit_triage_rule(q) \/ remove_triage_rule(q)
               \/ add_catalog_item(q) \/ edit_catalog_item(q) \/ add_catalog_item_field(q)
               \/ edit_catalog_item_field(q) \/ remove_catalog_item_field(q)
      BY <1>a, <3>2 DEF add_triage_rule, edit_triage_rule, remove_triage_rule, add_catalog_item,
         edit_catalog_item, add_catalog_item_field, edit_catalog_item_field,
         remove_catalog_item_field
    <3> QED BY <1>5, <3>1, <3>2 DEF Administer
  <2> QED BY <1>3, <2>1, <2>2
<1>6. ASSUME NEW q \in Session, Open(q) \/ ServerError(q), ~CreateTicket(q)
      PROVE  FALSE
  <2>1. q # s
    BY <1>4, <1>6 DEF Open, open_ticket, add_ticket_from_catalog, CommitTicket, CommitAnswers,
       ServerError
  <2>2. \E x : call' = [call EXCEPT ![q] = x]
    BY <1>6 DEF Open, open_ticket, add_ticket_from_catalog, CommitTicket, CommitAnswers,
       ServerError
  <2> QED BY <1>3, <2>1, <2>2
<1>7. ASSUME NEW q \in Session, CreateTicket(q)
      PROVE  CreateTicket(s)
  <2>1. CASE q = s
    BY <1>7, <2>1
  <2>2. CASE q # s
    <3>1. \E x : call' = [call EXCEPT ![q] = x]
      BY <1>7 DEF CreateTicket
    <3> QED BY <1>3, <2>2, <3>1
  <2> QED BY <2>1, <2>2
<1>8. ~(UNCHANGED desk \/ ReadClocks \/ ReadAgain \/ read_dashboard_overview
        \/ read_technician_kpis \/ read_kpi_trend \/ read_tickets_overview
        \/ \E t \in All : ResolveTicket(t) \/ EditPolicy(t) \/ RunsOut(t))
  BY <1>2 DEF desk, intake, ReadClocks, ReadAgain, read_dashboard_overview, read_technician_kpis,
     read_kpi_trend, read_tickets_overview, Request, ResolveTicket, EditPolicy, RunsOut
<1>9. ~Tick /\ \A sub, category : ~update_subcategory(sub, category)
  BY <1>2 DEF Tick, update_subcategory
<1> QED BY <1>5, <1>6, <1>7, <1>8, <1>9 DEF DeskNext, Next

\* Triage: the last matching rule decides each column, for every set of rules, every order
\* and every tie among them, and whatever queues they move the ticket into.
THEOREM TriageLetsTheLastWin == DeskSpec => TriageLastWins
<1>1. IInv /\ [DeskNext]_desk => TriageExplained
  <2> SUFFICES ASSUME IInv, [DeskNext]_desk, NEW s \in Session,
                      call[s].at \in {"received", "validated"}, call'[s].at = "opening"
               PROVE  \E matching \in SUBSET DOMAIN rows.rule :
                        Explains(matching, Opened(call[s].data, call[s].user), call'[s].data)
    BY DEF TriageExplained
  <2>a. PICK data, user : data = call[s].data /\ user = call[s].user
    OBVIOUS
  <2>1. CreateTicket(s)
    BY OnlyCreates
  <2>2. user \in Active
    BY <2>a, Parts DEF CallOK
  <2>3. create_ticket(data, user).error = None /\ call'[s].data = create_ticket(data, user).row
    <3>b. PICK outcome : outcome = create_ticket(data, user)
      OBVIOUS
    <3>1. DOMAIN call[s] = CallColumns /\ DOMAIN call = Session
      BY Parts DEF CallOK
    <3>2. call'[s] = IF outcome.error # None
              THEN [Idle EXCEPT !.status = Status(outcome.error, Caught(call[s].at))]
              ELSE [call[s] EXCEPT !.at = "opening", !.user = None, !.data = outcome.row]
      BY <2>1, <2>a, <3>1, <3>b DEF CreateTicket
    <3>3. outcome.error = None
      BY <3>2 DEF Idle
    <3>4. call'[s].data = outcome.row
      BY <3>1, <3>2, <3>3 DEF CallColumns
    <3> QED BY <3>3, <3>4, <3>b
  <2> QED BY <2>2, <2>3, <2>a, Explained
<1>2. TriageExplained => [TriageExplained]_intake
  OBVIOUS
<1> QED BY <1>1, <1>2, Invariance, PTL DEF DeskSpec, TriageLastWins, TriageExplained

--------------------------------------------------------------------------
(* Sums *)

\* The sum of the sizes of disjoint parts is the size of what they are parts of.
LEMMA SumOfParts ==
    ASSUME NEW D, IsFiniteSet(D), NEW W, IsFiniteSet(W),
           NEW part, \A k \in D : part[k] \in SUBSET W,
           \A j, k \in D : j # k => part[j] \cap part[k] = {},
           NEW counts, DOMAIN counts = D, \A k \in D : counts[k] = Cardinality(part[k])
    PROVE  SumOver(counts) = Cardinality(UNION {part[k] : k \in D})
<1> DEFINE One(s) == CHOOSE x \in s : TRUE
           All_(s) == UNION {part[k] : k \in s}
           Step(f) == [s \in SUBSET D |-> IF s = {} THEN 0 ELSE counts[One(s)] + f[s \ {One(s)}]]
           sizes == [s \in SUBSET D |-> Cardinality(All_(s))]
           sum == CHOOSE f : f = Step(f)
<1>1. SumOver(counts) = sum[D]
  BY DEF SumOver, MapThenSumSet, MapThenFoldSet
<1>2. \A s : s # {} => One(s) \in s
  OBVIOUS
<1> HIDE DEF One
<1>3. ASSUME NEW s \in SUBSET D
      PROVE  IsFiniteSet(All_(s)) /\ Cardinality(All_(s)) \in Nat
  <2>1. All_(s) \in SUBSET W
    OBVIOUS
  <2> HIDE DEF All_
  <2> QED BY <2>1, FS_Subset, FS_CardinalityType
<1>4. ASSUME NEW s \in SUBSET D, s # {}
      PROVE  Cardinality(All_(s)) = counts[One(s)] + Cardinality(All_(s \ {One(s)}))
  <2>a. PICK x, rest : x = One(s) /\ rest = s \ {x}
    OBVIOUS
  <2>1. x \in D /\ x \in s /\ rest \in SUBSET D
    BY <1>2, <1>4, <2>a
  <2>2. All_(s) = part[x] \cup All_(rest) /\ part[x] \cap All_(rest) = {}
    BY <2>1, <2>a
  <2>3. IsFiniteSet(part[x])
    BY <2>1, FS_Subset
  <2>4. IsFiniteSet(All_(rest))
    BY <1>3, <2>1
  <2> HIDE DEF All_
  <2>5. Cardinality(All_(s)) = Cardinality(part[x]) + Cardinality(All_(rest)) - Cardinality({})
    BY <2>2, <2>3, <2>4, FS_Union
  <2>6. Cardinality({}) = 0 /\ Cardinality(part[x]) \in Nat /\ Cardinality(All_(rest)) \in Nat
    BY <2>3, <2>4, FS_EmptySet, FS_CardinalityType
  <2>7. counts[x] = Cardinality(part[x])
    BY <2>1
  <2> QED BY <2>5, <2>6, <2>7, <2>a
<1>5. All_({}) = {}
  OBVIOUS
<1> HIDE DEF All_
<1>6. sizes = Step(sizes)
  <2>1. ASSUME NEW s \in SUBSET D
        PROVE  sizes[s] = IF s = {} THEN 0 ELSE counts[One(s)] + sizes[s \ {One(s)}]
    <3>1. CASE s = {}
      BY <1>5, <3>1, FS_EmptySet
    <3>2. CASE s # {}
      BY <1>4, <3>2
    <3> QED BY <3>1, <3>2
  <2> QED BY <2>1
<1> HIDE DEF Step
<1>7. sum = Step(sum)
  BY <1>6
<1>8. \A s \in SUBSET D : sum[s] = IF s = {} THEN 0 ELSE counts[One(s)] + sum[s \ {One(s)}]
  <2> HIDE DEF sum
  <2> QED BY <1>7 DEF Step
<1> HIDE DEF sum
<1> DEFINE T == {n \in Nat : \A s \in SUBSET D : Cardinality(s) = n => sum[s] = Cardinality(All_(s))}
<1>9. \A s \in SUBSET D : IsFiniteSet(s) /\ Cardinality(s) \in Nat
  BY FS_Subset, FS_CardinalityType
<1>10. 0 \in T
  <2>1. \A s \in SUBSET D : Cardinality(s) = 0 => s = {}
    BY <1>9, FS_EmptySet
  <2>2. Cardinality({}) = 0
    BY FS_EmptySet
  <2>3. sum[{}] = 0
    BY <1>8
  <2> QED BY <1>5, <2>1, <2>2, <2>3
<1>11. ASSUME NEW n \in Nat, n \in T
       PROVE  n + 1 \in T
  <2> SUFFICES ASSUME NEW s \in SUBSET D, Cardinality(s) = n + 1
               PROVE  sum[s] = Cardinality(All_(s))
    OBVIOUS
  <2>1. s # {}
    BY FS_EmptySet
  <2>a. PICK rest : rest = s \ {One(s)}
    OBVIOUS
  <2>2. rest \in SUBSET D /\ One(s) \in s
    BY <1>2, <2>1, <2>a
  <2>3. Cardinality(rest) = n
    <3>1. IsFiniteSet(s)
      BY <1>9
    <3>2. Cardinality(s \ {One(s)}) = Cardinality(s) - 1
      BY <2>2, <3>1, FS_RemoveElement
    <3> QED BY <2>a, <3>2
  <2>4. sum[rest] = Cardinality(All_(rest))
    BY <1>11, <2>2, <2>3
  <2> QED BY <1>4, <1>8, <2>1, <2>4, <2>a
<1>12. \A n \in Nat : n \in T
  <2> HIDE DEF T
  <2> QED BY <1>10, <1>11, Induction
<1>13. sum[D] = Cardinality(All_(D))
  BY <1>9, <1>12
<1> QED BY <1>1, <1>13 DEF All_

\* The sum of counts by some label: of all that have one of the labels.
LEMMA SumByLabel ==
    ASSUME NEW D, IsFiniteSet(D), NEW W, IsFiniteSet(W), NEW key,
           NEW label, \A j, k \in D : label[j] = label[k] => j = k,
           NEW counts, DOMAIN counts = D,
           \A k \in D : counts[k] = Cardinality({t \in W : key[t] = label[k]})
    PROVE  SumOver(counts) = Cardinality({t \in W : \E k \in D : key[t] = label[k]})
<1>a. PICK part : part = [k \in D |-> {t \in W : key[t] = label[k]}]
  OBVIOUS
<1>1. /\ \A k \in D : part[k] \in SUBSET W /\ counts[k] = Cardinality(part[k])
      /\ \A j, k \in D : j # k => part[j] \cap part[k] = {}
  BY <1>a
<1>2. SumOver(counts) = Cardinality(UNION {part[k] : k \in D})
  BY <1>1, SumOfParts
<1>3. UNION {part[k] : k \in D} = {t \in W : \E k \in D : key[t] = label[k]}
  BY <1>a
<1> QED BY <1>2, <1>3

--------------------------------------------------------------------------
(* The dashboard *)

LEMMA Finite ==
    ASSUME IInv, NEW set, set \subseteq All
    PROVE  IsFiniteSet(set) /\ Cardinality(set) \in Nat
<1>1. IsFiniteSet(All)
  BY Parts, FS_Interval DEF All
<1>2. IsFiniteSet(set)
  BY <1>1, FS_Subset
<1> QED BY <1>2, FS_CardinalityType

LEMMA FiniteKeys ==
    ASSUME NEW set, IsFiniteSet(set), NEW key
    PROVE  IsFiniteSet({key[t] : t \in set})
<1>a. PICK f, K : K = {key[t] : t \in set} /\ f = [t \in set |-> key[t]]
  OBVIOUS
<1>1. f \in Surjection(set, K)
  BY <1>a DEF Surjection
<1> QED BY <1>a, <1>1, FS_Surjection

\* The sum of a table that counts part of a set by a key that all of the part have in it.
LEMMA SumByKey ==
    ASSUME NEW W, IsFiniteSet(W), NEW key, NEW D, IsFiniteSet(D),
           \A t \in W : key[t] \in D,
           NEW counts, DOMAIN counts = D, \A k \in D : counts[k] = Cardinality({t \in W : key[t] = k})
    PROVE  SumOver(counts) = Cardinality(W)
<1>a. PICK label : label = [k \in D |-> k]
  OBVIOUS
<1>1. /\ \A j, k \in D : label[j] = label[k] => j = k
      /\ \A k \in D : counts[k] = Cardinality({t \in W : key[t] = label[k]})
  BY <1>a
<1>2. SumOver(counts) = Cardinality({t \in W : \E k \in D : key[t] = label[k]})
  BY <1>1, SumByLabel
<1>3. {t \in W : \E k \in D : key[t] = label[k]} = W
  BY <1>a
<1> QED BY <1>2, <1>3

LEMMA VolumeSums ==
    ASSUME NEW read, IsFiniteSet(DOMAIN read), NEW key, NEW table, table = _count_by(read, key)
    PROVE  SumOver([k \in DOMAIN table |-> table[k]]) = Cardinality(DOMAIN read)
<1>a. PICK W, D, counts : /\ W = DOMAIN read /\ D = {key[t] : t \in W}
                          /\ counts = [k \in DOMAIN table |-> table[k]]
  OBVIOUS
<1>1. DOMAIN counts = D /\ \A k \in D : counts[k] = Cardinality({t \in W : key[t] = k})
  BY <1>a DEF _count_by, Count
<1>2. \A t \in W : key[t] \in D
  BY <1>a
<1>3. IsFiniteSet(W) /\ IsFiniteSet(D)
  BY <1>a, FiniteKeys
<1> QED BY <1>a, <1>1, <1>2, <1>3, SumByKey

\* Columns of a table.
Verdicts(table, verdict) == [k \in DOMAIN table |-> table[k][verdict]]
Compliance(table) == [k \in DOMAIN table |-> table[k].met + table[k].breached]
Finals(table) == [k \in DOMAIN table |-> table[k].final]

\* The rows the compliance tables count, under a verdict and at all, and those of the averages.
JudgedAs(read, verdict) ==
  {t \in DOMAIN read : read[t].resolved # None /\ calculate_sla(read[t]) = verdict}
JudgedSettled(read) == {t \in DOMAIN read : read[t].resolved # None /\ Judged(read[t])}
JudgedRows(read) == {t \in DOMAIN read : Judged(read[t])}

\* What the sums of a table of compliance are.
ComplianceTotals(table, read) ==
  /\ \A verdict \in {"met", "breached"} :
       SumOver(Verdicts(table, verdict)) = Cardinality(JudgedAs(read, verdict))
  /\ SumOver(Compliance(table)) = Cardinality(JudgedSettled(read))

LEMMA ComplianceSums ==
    ASSUME NEW read, IsFiniteSet(DOMAIN read), NEW key, NEW table,
           table = _sla_compliance_by(read, key)
    PROVE  ComplianceTotals(table, read)
<1>a. PICK judged, D : judged = JudgedSettled(read) /\ D = {key[t] : t \in judged}
  OBVIOUS
<1>1. IsFiniteSet(judged) /\ \A t \in judged : key[t] \in D
  <2>1. judged \in SUBSET DOMAIN read
    BY <1>a DEF JudgedSettled
  <2> QED BY <1>a, <2>1, FS_Subset
<1>2. IsFiniteSet(D)
  BY <1>a, <1>1, FiniteKeys
<1>3. /\ DOMAIN table = D
      /\ \A k \in D :
           /\ table[k].met = Cardinality({t \in judged : key[t] = k /\ calculate_sla(read[t]) = "met"})
           /\ table[k].breached
                = Cardinality({t \in judged : key[t] = k /\ calculate_sla(read[t]) = "breached"})
  BY <1>a DEF _sla_compliance_by, Count, JudgedSettled
<1>4. ASSUME NEW verdict \in {"met", "breached"}
      PROVE  SumOver(Verdicts(table, verdict)) = Cardinality(JudgedAs(read, verdict))
  <2>a. PICK W, counts : /\ W = {t \in judged : calculate_sla(read[t]) = verdict}
                         /\ counts = Verdicts(table, verdict)
    OBVIOUS
  <2>1. IsFiniteSet(W) /\ \A t \in W : key[t] \in D
    <3>1. W \in SUBSET judged
      BY <2>a
    <3> QED BY <1>1, <3>1, FS_Subset
  <2>2. \A k \in D : {t \in judged : key[t] = k /\ calculate_sla(read[t]) = verdict}
                       = {t \in W : key[t] = k}
    BY <2>a
  <2>3. DOMAIN counts = D /\ \A k \in D : counts[k] = Cardinality({t \in W : key[t] = k})
    <3>1. \A k \in D :
            counts[k] = Cardinality({t \in judged : key[t] = k /\ calculate_sla(read[t]) = verdict})
      <4>1. CASE verdict = "met"
        BY <1>3, <2>a, <4>1 DEF Verdicts
      <4>2. CASE verdict = "breached"
        BY <1>3, <2>a, <4>2 DEF Verdicts
      <4> QED BY <4>1, <4>2
    <3>2. DOMAIN counts = D
      BY <1>3, <2>a DEF Verdicts
    <3> QED BY <2>2, <3>1, <3>2
  <2>4. SumOver(counts) = Cardinality(W)
    BY <1>2, <2>1, <2>3, SumByKey
  <2>5. W = JudgedAs(read, verdict)
    BY <1>a, <2>a DEF Judged, JudgedSettled, JudgedAs
  <2> QED BY <2>a, <2>4, <2>5
<1>5. SumOver(Compliance(table)) = Cardinality(judged)
  <2>a. PICK counts : counts = Compliance(table)
    OBVIOUS
  <2>1. ASSUME NEW k \in D
        PROVE  counts[k] = Cardinality({t \in judged : key[t] = k})
    <3>a. PICK A, B : /\ A = {t \in judged : key[t] = k /\ calculate_sla(read[t]) = "met"}
                      /\ B = {t \in judged : key[t] = k /\ calculate_sla(read[t]) = "breached"}
      OBVIOUS
    <3>1. A \in SUBSET judged /\ B \in SUBSET judged
      BY <3>a
    <3>2. A \cap B = {} /\ A \cup B = {t \in judged : key[t] = k}
      BY <1>a, <3>a DEF Judged, JudgedSettled
    <3>3. IsFiniteSet(A) /\ IsFiniteSet(B) /\ Cardinality(A) \in Nat /\ Cardinality(B) \in Nat
      BY <1>1, <3>1, FS_Subset, FS_CardinalityType
    <3>4. Cardinality(A \cup B) = Cardinality(A) + Cardinality(B) - Cardinality(A \cap B)
      BY <3>3, FS_Union
    <3>5. Cardinality(A \cap B) = 0
      BY <3>2, FS_EmptySet
    <3>6. counts[k] = Cardinality(A) + Cardinality(B)
      BY <1>3, <2>a, <3>a DEF Compliance
    <3>7. Cardinality(A \cup B) = Cardinality({t \in judged : key[t] = k})
      BY <3>2
    <3> QED BY <3>3, <3>4, <3>5, <3>6, <3>7
  <2>2. DOMAIN counts = D
    BY <1>3, <2>a DEF Compliance
  <2> QED BY <1>1, <1>2, <2>1, <2>2, <2>a, SumByKey
<1> QED BY <1>4, <1>5, <1>a DEF ComplianceTotals

LEMMA AverageSums ==
    ASSUME NEW read, IsFiniteSet(DOMAIN read), NEW key, NEW table, table = _average_time_by(read, key)
    PROVE  SumOver(Finals(table)) = Cardinality(JudgedRows(read))
<1>a. PICK timed, D, W, counts :
        /\ timed = {t \in DOMAIN read : calculate_sla(read[t]) # None} /\ D = {key[t] : t \in timed}
        /\ W = {t \in timed : Judged(read[t])} /\ counts = Finals(table)
  OBVIOUS
<1>1. IsFiniteSet(timed) /\ IsFiniteSet(W) /\ \A t \in W : key[t] \in D
  <2>1. timed \in SUBSET DOMAIN read /\ W \in SUBSET DOMAIN read
    BY <1>a
  <2> QED BY <1>a, <2>1, FS_Subset
<1>2. IsFiniteSet(D)
  BY <1>a, <1>1, FiniteKeys
<1>3. \A k : {t \in timed : key[t] = k /\ Judged(read[t])} = {t \in W : key[t] = k}
  BY <1>a
<1>4. DOMAIN counts = D /\ \A k \in D : counts[k] = Cardinality({t \in W : key[t] = k})
  <2>1. \A k \in D : counts[k] = Cardinality({t \in timed : key[t] = k /\ Judged(read[t])})
    BY <1>a DEF _average_time_by, Count, Finals
  <2>2. DOMAIN counts = D
    BY <1>a DEF _average_time_by, Finals
  <2> QED BY <1>3, <2>1, <2>2
<1>5. SumOver(counts) = Cardinality(W)
  BY <1>1, <1>2, <1>4, SumByKey
<1>6. W = JudgedRows(read)
  BY <1>a, ReportsAssumption DEF Judged, JudgedRows
<1> QED BY <1>5, <1>6, <1>a

ComplianceTables == {"sla_compliance_by_priority", "sla_compliance_by_team"}
AverageTables == {"average_time_by_team", "average_time_by_category"}

\* The tables a dashboard has made when it is at the next one.
Made ==
  [sla_compliance_by_priority |-> {},
   sla_compliance_by_team     |-> {"sla_compliance_by_priority"},
   average_time_by_team       |-> ComplianceTables,
   average_time_by_category   |-> ComplianceTables \cup {"average_time_by_team"},
   idle                       |-> ComplianceTables \cup AverageTables]

SettledIn(read) == {t \in DOMAIN read : read[t].resolved # None}

\* The rows as they were loaded, and last judged.
Loaded(read) == IsFiniteSet(DOMAIN read) /\ \A t \in DOMAIN read : DOMAIN read[t] = TicketColumns

\* What the tables made so far say: of the settled tickets, which have not turned since, and
\* of the others, which have turned one way, unless they were edited.
VolumesOK(read, answer) == \A section \in Volumes : \E key : answer[section] = _count_by(read, key)

SettledOK(at, read, edited, answer) ==
  edited \cap SettledIn(read) = {} =>
    /\ \A section \in Made[at] \cap ComplianceTables : ComplianceTotals(answer[section], read)
    /\ \A section \in Made[at] \cap AverageTables :
         SumOver(Finals(answer[section])) >= Cardinality(JudgedSettled(read))

LaterOK(at, read, edited, answer) ==
  edited \cap DOMAIN read = {} =>
    /\ "average_time_by_team" \in Made[at] =>
         SumOver(Finals(answer.average_time_by_team)) \in 0..Cardinality(JudgedRows(read))
    /\ "average_time_by_category" \in Made[at] =>
         SumOver(Finals(answer.average_time_by_category))
           >= SumOver(Finals(answer.average_time_by_team))

Asked(at, read, edited, answer) ==
  /\ DOMAIN answer = Volumes \cup {"total_tickets"} \cup Made[at]
  /\ Loaded(read) /\ VolumesOK(read, answer)
  /\ SettledOK(at, read, edited, answer) /\ LaterOK(at, read, edited, answer)

\* The sets of judged rows are finite; settled ones are among the judged.
LEMMA JudgedSets ==
    ASSUME NEW read, Loaded(read)
    PROVE  /\ IsFiniteSet(JudgedRows(read)) /\ Cardinality(JudgedRows(read)) \in Nat
           /\ IsFiniteSet(JudgedSettled(read)) /\ Cardinality(JudgedSettled(read)) \in Nat
           /\ Cardinality(JudgedSettled(read)) <= Cardinality(JudgedRows(read))
<1>1. JudgedRows(read) \in SUBSET DOMAIN read /\ JudgedSettled(read) \in SUBSET JudgedRows(read)
  BY DEF JudgedRows, JudgedSettled
<1>2. IsFiniteSet(JudgedRows(read)) /\ IsFiniteSet(JudgedSettled(read))
  BY <1>1, FS_Subset DEF Loaded
<1>3. Cardinality(JudgedSettled(read)) <= Cardinality(JudgedRows(read))
  BY <1>1, <1>2, FS_Subset
<1> QED BY <1>2, <1>3, FS_CardinalityType

\* Clocks that turn between two tables.
Turns(read, late) == [t \in DOMAIN read |-> IF t \in late THEN Turned(read[t]) ELSE read[t]]
MayBeLate(read, edited, late) ==
  /\ late \subseteq DOMAIN read
  /\ \A t \in late : t \in edited \/ (read[t].resolved = None /\ read[t].verdict = "running")

LEMMA ClocksTurn ==
    ASSUME NEW read, Loaded(read), NEW edited, NEW late, MayBeLate(read, edited, late),
           NEW more, more = Turns(read, late)
    PROVE  /\ DOMAIN more = DOMAIN read /\ Loaded(more) /\ SettledIn(more) = SettledIn(read)
           /\ edited \cap SettledIn(read) = {} =>
                /\ \A verdict : JudgedAs(more, verdict) = JudgedAs(read, verdict)
                /\ JudgedSettled(more) = JudgedSettled(read)
           /\ edited \cap DOMAIN read = {} => JudgedRows(read) \subseteq JudgedRows(more)
<1>1. ASSUME NEW t \in DOMAIN read
      PROVE  /\ DOMAIN more[t] = TicketColumns /\ more[t].resolved = read[t].resolved
             /\ more[t].status = read[t].status /\ more[t].priority = read[t].priority
             /\ t \notin late => more[t] = read[t]
             /\ t \in late /\ read[t].resolved = None /\ read[t].verdict = "running"
                  => more[t].verdict = "breached"
  <2>1. DOMAIN read[t] = TicketColumns
    BY DEF Loaded
  <2>2. more[t] = IF t \in late THEN Turned(read[t]) ELSE read[t]
    BY DEF Turns
  <2> QED BY <2>1, <2>2 DEF Turned, TicketColumns
<1>2. DOMAIN more = DOMAIN read
  BY DEF Turns
<1>3. Loaded(more) /\ SettledIn(more) = SettledIn(read)
  BY <1>1, <1>2 DEF Loaded, SettledIn
<1>4. ASSUME edited \cap SettledIn(read) = {}
      PROVE  /\ \A verdict : JudgedAs(more, verdict) = JudgedAs(read, verdict)
             /\ JudgedSettled(more) = JudgedSettled(read)
  <2>1. \A t \in SettledIn(read) : more[t] = read[t]
    BY <1>1, <1>4 DEF SettledIn, MayBeLate
  <2>2. \A verdict : JudgedAs(more, verdict) = JudgedAs(read, verdict)
    BY <1>1, <1>2, <2>1 DEF JudgedAs, SettledIn
  <2>3. JudgedSettled(more) = JudgedSettled(read)
    BY <1>1, <1>2, <2>1 DEF JudgedSettled, SettledIn
  <2> QED BY <2>2, <2>3
<1>5. ASSUME edited \cap DOMAIN read = {}
      PROVE  JudgedRows(read) \subseteq JudgedRows(more)
  <2> SUFFICES ASSUME NEW t \in DOMAIN read, Judged(read[t])
               PROVE  Judged(more[t])
    BY <1>2 DEF JudgedRows
  <2>1. CASE t \in late
    <3>1. read[t].resolved = None /\ read[t].verdict = "running"
      BY <1>5, <2>1 DEF MayBeLate
    <3>2. calculate_sla(read[t]) \in {None, "running"}
      BY <3>1 DEF calculate_sla
    <3> QED BY <3>2, ReportsAssumption DEF Judged
  <2>2. CASE t \notin late
    BY <1>1, <2>2
  <2> QED BY <2>1, <2>2
<1> QED BY <1>2, <1>3, <1>4, <1>5

\* Each table is one of its kind.
LEMMA TableKinds ==
    ASSUME NEW section \in ComplianceTables \cup AverageTables, NEW read
    PROVE  /\ section \in ComplianceTables =>
                \E key : sla_table(section, read) = _sla_compliance_by(read, key)
           /\ section \in AverageTables =>
                \E key : sla_table(section, read) = _average_time_by(read, key)
<1>1. CASE section = "sla_compliance_by_priority"
  BY <1>1 DEF sla_table, AverageTables
<1>2. CASE section = "sla_compliance_by_team"
  BY <1>2 DEF sla_table, AverageTables
<1>3. CASE section = "average_time_by_team"
  BY <1>3 DEF sla_table, ComplianceTables
<1>4. CASE section = "average_time_by_category"
  BY <1>4 DEF sla_table, ComplianceTables
<1> QED BY <1>1, <1>2, <1>3, <1>4 DEF ComplianceTables, AverageTables

\* The order of the tables.
LEMMA Order ==
    ASSUME NEW at \in DOMAIN Following
    PROVE  /\ at \in ComplianceTables \cup AverageTables /\ at \notin Made[at]
           /\ at \notin Volumes \cup {"total_tickets"}
           /\ Following[at] \in DOMAIN Following \cup {"idle"}
           /\ Made[Following[at]] = Made[at] \cup {at}
           /\ at = "average_time_by_category" => "average_time_by_team" \in Made[at]
           /\ "average_time_by_category" \notin Made[at]
<1>1. DOMAIN Following = ComplianceTables \cup AverageTables
  BY DEF Following, ComplianceTables, AverageTables
<1>2. CASE at = "sla_compliance_by_priority"
  BY <1>1, <1>2 DEF Following, Made, ComplianceTables, AverageTables, Volumes
<1>3. CASE at = "sla_compliance_by_team"
  BY <1>1, <1>3 DEF Following, Made, ComplianceTables, AverageTables, Volumes
<1>4. CASE at = "average_time_by_team"
  BY <1>1, <1>4 DEF Following, Made, ComplianceTables, AverageTables, Volumes
<1>5. CASE at = "average_time_by_category"
  BY <1>1, <1>5 DEF Following, Made, ComplianceTables, AverageTables, Volumes
<1> QED BY <1>1, <1>2, <1>3, <1>4, <1>5 DEF ComplianceTables, AverageTables

LEMMA OneMoreTable ==
    ASSUME NEW at \in DOMAIN Following, NEW read, NEW edited, NEW answer,
           Asked(at, read, edited, answer), NEW late, MayBeLate(read, edited, late),
           NEW more, more = Turns(read, late), NEW overview,
           overview = [section \in DOMAIN answer \cup {at} |->
                         IF section = at THEN sla_table(section, more) ELSE answer[section]]
    PROVE  Asked(Following[at], more, edited, overview)
<1>a. PICK next : next = Following[at]
  OBVIOUS
<1>1. Loaded(read)
  BY DEF Asked
<1>2. /\ DOMAIN more = DOMAIN read /\ Loaded(more) /\ SettledIn(more) = SettledIn(read)
      /\ edited \cap SettledIn(read) = {} =>
           /\ \A verdict : JudgedAs(more, verdict) = JudgedAs(read, verdict)
           /\ JudgedSettled(more) = JudgedSettled(read)
      /\ edited \cap DOMAIN read = {} => JudgedRows(read) \subseteq JudgedRows(more)
  BY <1>1, ClocksTurn
<1>3. /\ at \in ComplianceTables \cup AverageTables /\ at \notin Made[at]
      /\ at \notin Volumes \cup {"total_tickets"} /\ Made[next] = Made[at] \cup {at}
      /\ at = "average_time_by_category" => "average_time_by_team" \in Made[at]
      /\ "average_time_by_category" \notin Made[at]
  BY <1>a, Order
<1>4. DOMAIN answer = Volumes \cup {"total_tickets"} \cup Made[at]
  BY DEF Asked
<1>5. /\ DOMAIN overview = Volumes \cup {"total_tickets"} \cup Made[next]
      /\ \A section \in DOMAIN answer : overview[section] = answer[section]
      /\ overview[at] = sla_table(at, more)
  BY <1>3, <1>4
<1>6. VolumesOK(more, overview)
  <2> SUFFICES ASSUME NEW section \in Volumes
               PROVE  \E key : overview[section] = _count_by(more, key)
    BY DEF VolumesOK
  <2>1. PICK key : answer[section] = _count_by(read, key)
    BY DEF Asked, VolumesOK
  <2>2. _count_by(read, key) = _count_by(more, key)
    BY <1>2 DEF _count_by
  <2> QED BY <1>4, <1>5, <2>1, <2>2
<1>7. /\ IsFiniteSet(DOMAIN more) /\ Cardinality(JudgedRows(more)) \in Nat
      /\ Cardinality(JudgedSettled(more)) \in Nat
      /\ Cardinality(JudgedSettled(more)) <= Cardinality(JudgedRows(more))
  BY <1>2, JudgedSets DEF Loaded
<1>8. /\ at \in ComplianceTables => ComplianceTotals(overview[at], more)
      /\ at \in AverageTables => SumOver(Finals(overview[at])) = Cardinality(JudgedRows(more))
  <2>1. /\ at \in ComplianceTables => \E key : overview[at] = _sla_compliance_by(more, key)
        /\ at \in AverageTables => \E key : overview[at] = _average_time_by(more, key)
    BY <1>3, <1>5, TableKinds
  <2> QED BY <1>7, <2>1, ComplianceSums, AverageSums
<1>9. SettledOK(next, more, edited, overview)
  <2> SUFFICES ASSUME edited \cap SettledIn(read) = {}
               PROVE  /\ \A section \in Made[next] \cap ComplianceTables :
                           ComplianceTotals(overview[section], more)
                      /\ \A section \in Made[next] \cap AverageTables :
                           SumOver(Finals(overview[section])) >= Cardinality(JudgedSettled(more))
    BY <1>2 DEF SettledOK
  <2>1. /\ \A section \in Made[at] \cap ComplianceTables : ComplianceTotals(answer[section], read)
        /\ \A section \in Made[at] \cap AverageTables :
             SumOver(Finals(answer[section])) >= Cardinality(JudgedSettled(read))
    BY DEF Asked, SettledOK
  <2>2. \A table : ComplianceTotals(table, read) => ComplianceTotals(table, more)
    BY <1>2 DEF ComplianceTotals
  <2>3. \A section \in Made[at] : overview[section] = answer[section]
    BY <1>4, <1>5
  <2>4. ASSUME NEW section \in Made[next] \cap ComplianceTables
        PROVE  ComplianceTotals(overview[section], more)
    BY <1>3, <1>8, <2>1, <2>2, <2>3
  <2>5. ASSUME NEW section \in Made[next] \cap AverageTables
        PROVE  SumOver(Finals(overview[section])) >= Cardinality(JudgedSettled(more))
    <3>1. CASE section = at
      BY <1>7, <1>8, <3>1
    <3>2. CASE section # at
      BY <1>2, <1>3, <2>1, <2>3, <3>2
    <3> QED BY <3>1, <3>2
  <2> QED BY <2>4, <2>5
<1>10. LaterOK(next, more, edited, overview)
  <2> SUFFICES ASSUME edited \cap DOMAIN read = {}
               PROVE  /\ "average_time_by_team" \in Made[next] =>
                           SumOver(Finals(overview.average_time_by_team))
                             \in 0..Cardinality(JudgedRows(more))
                      /\ "average_time_by_category" \in Made[next] =>
                           SumOver(Finals(overview.average_time_by_category))
                             >= SumOver(Finals(overview.average_time_by_team))
    BY <1>2 DEF LaterOK
  <2>1. Cardinality(JudgedRows(read)) \in Nat
        /\ Cardinality(JudgedRows(read)) <= Cardinality(JudgedRows(more))
    <3>1. JudgedRows(read) \in SUBSET JudgedRows(more) /\ IsFiniteSet(JudgedRows(more))
      BY <1>2, JudgedSets
    <3> QED BY <1>1, <3>1, FS_Subset, JudgedSets
  <2>2. ASSUME "average_time_by_team" \in Made[at]
        PROVE  SumOver(Finals(overview.average_time_by_team)) \in 0..Cardinality(JudgedRows(more))
    <3>1. SumOver(Finals(answer.average_time_by_team)) \in 0..Cardinality(JudgedRows(read))
      BY <2>2 DEF Asked, LaterOK
    <3>2. overview.average_time_by_team = answer.average_time_by_team
      BY <1>4, <1>5, <2>2
    <3> QED BY <1>7, <2>1, <3>1, <3>2
  <2>3. CASE at = "average_time_by_category"
    <3>1. SumOver(Finals(overview.average_time_by_category)) = Cardinality(JudgedRows(more))
      BY <1>8, <2>3 DEF AverageTables
    <3>2. SumOver(Finals(overview.average_time_by_team)) \in 0..Cardinality(JudgedRows(more))
      BY <1>3, <2>2, <2>3
    <3> QED BY <1>7, <3>1, <3>2
  <2>4. CASE at = "average_time_by_team"
    <3>1. SumOver(Finals(overview.average_time_by_team)) = Cardinality(JudgedRows(more))
      BY <1>8, <2>4 DEF AverageTables
    <3> QED BY <1>3, <1>7, <2>4, <3>1
  <2>5. CASE at \notin {"average_time_by_category", "average_time_by_team"}
    BY <1>3, <2>2, <2>5
  <2> QED BY <2>3, <2>4, <2>5
<1> QED BY <1>2, <1>5, <1>6, <1>9, <1>10, <1>a DEF Asked

\* The tables of the file that count tickets are those of the page.
TableOf(csv, answer, section) ==
  IF csv
  THEN [k \in {line[2] : line \in {l \in DOMAIN answer : l[1] = section}} |-> answer[<<section, k>>]]
  ELSE answer[section]

LEMMA FileHasVolumes ==
    ASSUME NEW overview, NEW section \in Volumes, section \in DOMAIN overview,
           overview[section] = [k \in DOMAIN overview[section] |-> overview[section][k]],
           NEW csv \in BOOLEAN, NEW answer,
           answer = IF csv THEN export_dashboard_csv(overview) ELSE overview
    PROVE  TableOf(csv, answer, section) = overview[section]
<1>1. CASE csv = FALSE
  BY <1>1 DEF TableOf
<1>2. CASE csv = TRUE
  <2>a. PICK lines, sections :
          /\ sections = DOMAIN overview \ {"total_tickets"}
          /\ lines = UNION {{<<part, k>> : k \in DOMAIN overview[part]} : part \in sections}
    OBVIOUS
  <2>1. answer = [line \in lines |-> Value(line[1], overview[line[1]][line[2]])]
    BY <1>2, <2>a DEF export_dashboard_csv
  <2>b. PICK own : own = {l \in DOMAIN answer : l[1] = section}
    OBVIOUS
  <2>2. \A l : l \in own => \E k \in DOMAIN overview[section] : l = <<section, k>>
    <3> SUFFICES ASSUME NEW l \in own
                 PROVE  \E k \in DOMAIN overview[section] : l = <<section, k>>
      OBVIOUS
    <3>1. l \in lines /\ l[1] = section
      BY <2>1, <2>b
    <3>2. PICK part \in sections : l \in {<<part, k>> : k \in DOMAIN overview[part]}
      BY <2>a, <3>1
    <3> QED BY <3>1, <3>2
  <2>3. \A k \in DOMAIN overview[section] : <<section, k>> \in own
    <3> SUFFICES ASSUME NEW k \in DOMAIN overview[section]
                 PROVE  <<section, k>> \in own
      OBVIOUS
    <3>1. <<section, k>> \in {<<section, j>> : j \in DOMAIN overview[section]}
      OBVIOUS
    <3>2. section \in sections
      BY <2>a DEF Volumes
    <3>3. <<section, k>> \in lines
      BY <2>a, <3>1, <3>2
    <3> QED BY <2>1, <2>b, <3>3
  <2>4. {line[2] : line \in own} = DOMAIN overview[section]
    <3>1. \A l \in own : l[2] \in DOMAIN overview[section]
      BY <2>2
    <3>2. \A k \in DOMAIN overview[section] : \E l \in own : l[2] = k
      <4> SUFFICES ASSUME NEW k \in DOMAIN overview[section]
                   PROVE  \E l \in own : l[2] = k
        OBVIOUS
      <4>1. <<section, k>> \in own /\ <<section, k>>[2] = k
        BY <2>3
      <4> QED BY <4>1
    <3> QED BY <3>1, <3>2
  <2>5. \A k \in DOMAIN overview[section] : answer[<<section, k>>] = overview[section][k]
    <3>1. \A item : Value(section, item) = item
      BY DEF Value, Volumes
    <3> QED BY <2>1, <2>3, <2>b, <3>1
  <2>6. TableOf(csv, answer, section)
          = [k \in {line[2] : line \in own} |-> answer[<<section, k>>]]
    BY <1>2, <2>b DEF TableOf
  <2> QED BY <2>4, <2>5, <2>6
<1> QED BY <1>1, <1>2

\* What a dashboard says when its last table is made.
LEMMA DashboardStep ==
    ASSUME NEW csv \in BOOLEAN, NEW overview, view'.csv = csv,
           Asked("idle", view'.read, view'.edited, overview),
           view'.answer = IF csv THEN export_dashboard_csv(overview) ELSE overview
    PROVE  DashboardAddsUp'
<1>a. PICK read, edited, answer :
        read = view'.read /\ edited = view'.edited /\ answer = view'.answer
  OBVIOUS
<1>1. Asked("idle", read, edited, overview)
      /\ answer = IF csv THEN export_dashboard_csv(overview) ELSE overview
  BY <1>a
<1>2. \A section : Table(section)' = TableOf(csv, answer, section)
  BY <1>a DEF Table, TableOf
<1>3. Settled' = SettledIn(read)
  BY <1>a DEF Settled, SettledIn
<1>4. ASSUME NEW section \in Volumes
      PROVE  Total(section, LAMBDA count : count)' = Cardinality(DOMAIN view.read)'
  <2>1. PICK key : overview[section] = _count_by(read, key)
    BY <1>1 DEF Asked, VolumesOK
  <2>2. section \in DOMAIN overview /\ IsFiniteSet(DOMAIN read)
    BY <1>1 DEF Asked, Loaded
  <2>3. overview[section] = [k \in DOMAIN overview[section] |-> overview[section][k]]
    BY <2>1 DEF _count_by
  <2>4. Table(section)' = overview[section]
    BY <1>1, <1>2, <2>2, <2>3, FileHasVolumes
  <2>5. SumOver([k \in DOMAIN overview[section] |-> overview[section][k]]) = Cardinality(DOMAIN read)
    BY <2>1, <2>2, VolumeSums
  <2> QED BY <1>a, <2>4, <2>5 DEF Total
<1>5. Made["idle"] = ComplianceTables \cup AverageTables
  BY DEF Made
<1>6. ASSUME ~csv
      PROVE  /\ \A section : Table(section)' = overview[section]
             /\ \A section, verdict :
                  Total(section, LAMBDA counts : counts[verdict])'
                    = SumOver(Verdicts(overview[section], verdict))
             /\ \A section : Total(section, LAMBDA counts : counts.met + counts.breached)'
                               = SumOver(Compliance(overview[section]))
             /\ \A section : Total(section, LAMBDA counts : counts.final)'
                               = SumOver(Finals(overview[section]))
  <2>1. \A section : Table(section)' = overview[section]
    BY <1>1, <1>2, <1>6 DEF TableOf
  <2> QED BY <2>1 DEF Total, Verdicts, Compliance, Finals
<1>7. ASSUME ~csv, edited \cap SettledIn(read) = {}
      PROVE  /\ \A verdict \in {"met", "breached"} :
                  Total("sla_compliance_by_priority", LAMBDA counts : counts[verdict])'
                    = Total("sla_compliance_by_team", LAMBDA counts : counts[verdict])'
             /\ \A section \in AverageTables :
                  Total(section, LAMBDA counts : counts.final)'
                    >= Total("sla_compliance_by_team",
                             LAMBDA counts : counts.met + counts.breached)'
  <2>1. /\ ComplianceTotals(overview.sla_compliance_by_priority, read)
        /\ ComplianceTotals(overview.sla_compliance_by_team, read)
        /\ \A section \in AverageTables :
             SumOver(Finals(overview[section])) >= Cardinality(JudgedSettled(read))
    BY <1>1, <1>5, <1>7 DEF Asked, SettledOK, ComplianceTables
  <2>2. ASSUME NEW verdict \in {"met", "breached"}
        PROVE  Total("sla_compliance_by_priority", LAMBDA counts : counts[verdict])'
                 = Total("sla_compliance_by_team", LAMBDA counts : counts[verdict])'
    <3>1. SumOver(Verdicts(overview.sla_compliance_by_priority, verdict))
            = SumOver(Verdicts(overview.sla_compliance_by_team, verdict))
      BY <2>1 DEF ComplianceTotals
    <3> QED BY <1>6, <1>7, <3>1
  <2>3. ASSUME NEW section \in AverageTables
        PROVE  Total(section, LAMBDA counts : counts.final)'
                 >= Total("sla_compliance_by_team",
                          LAMBDA counts : counts.met + counts.breached)'
    <3>1. SumOver(Finals(overview[section])) >= SumOver(Compliance(overview.sla_compliance_by_team))
      BY <2>1 DEF ComplianceTotals
    <3> QED BY <1>6, <1>7, <3>1
  <2> QED BY <2>2, <2>3
<1>8. ASSUME ~csv, edited \cap DOMAIN read = {}
      PROVE  Total("average_time_by_category", LAMBDA counts : counts.final)'
               >= Total("average_time_by_team", LAMBDA counts : counts.final)'
  <2>1. SumOver(Finals(overview.average_time_by_category))
          >= SumOver(Finals(overview.average_time_by_team))
    BY <1>1, <1>5, <1>8 DEF Asked, LaterOK, AverageTables
  <2> QED BY <1>6, <1>8, <2>1
<1> QED BY <1>3, <1>4, <1>7, <1>8, <1>a DEF DashboardAddsUp, AverageTables

--------------------------------------------------------------------------
(* The series *)

\* The weeks the cursor of a series visits are those of the period, but for the last when it
\* begins later in its week than it ends.
LEMMA WeekIsVisited ==
    ASSUME NEW W \in Nat \ {0}, NEW from \in Int, NEW to \in Int, NEW d \in from..to,
           from % W <= to % W \/ d - (d % W) # to - (to % W)
    PROVE  \E v \in from..to : (v - from) % W = 0 /\ v - (v % W) = d - (d % W)
<1>a. PICK a, b, c : a = from \div W /\ b = to \div W /\ c = d \div W
  OBVIOUS
<1>b. PICK e, f, g : e = from % W /\ f = to % W /\ g = d % W
  OBVIOUS
<1>1. /\ e \in 0..W-1 /\ f \in 0..W-1 /\ g \in 0..W-1 /\ a \in Int /\ b \in Int /\ c \in Int
      /\ from = W*a + e /\ to = W*b + f /\ d = W*c + g
  BY <1>a, <1>b
<1>2. a <= c /\ c <= b
  BY <1>a
<1>3. W*a <= W*c /\ W*c <= W*b /\ W*a \in Int /\ W*b \in Int /\ W*c \in Int
  BY <1>1, <1>2
<1>c. PICK v : v = W*c + e
  OBVIOUS
<1>4. v \in from..to
  <2>1. CASE e <= f
    <3>a. PICK p, q, r : p = W*a /\ q = W*c /\ r = W*b
      OBVIOUS
    <3>1. /\ p \in Int /\ q \in Int /\ r \in Int /\ p <= q /\ q <= r /\ e \in Int /\ f \in Int
          /\ from = p + e /\ to = r + f /\ v = q + e
      BY <1>1, <1>3, <1>c, <3>a
    <3> QED BY <2>1, <3>1
  <2>2. CASE ~(e <= f)
    <3>1. W*c # W*b
      <4>1. d - g # to - f
        BY <1>b, <2>2
      <4>2. d - g = W*c /\ to - f = W*b
        BY <1>1, <1>3
      <4> QED BY <4>1, <4>2
    <3>2. c + 1 <= b
      BY <1>1, <1>2, <3>1
    <3>3. W*(c+1) <= W*b /\ W*(c+1) = W*c + W
      BY <1>1, <3>2
    <3> QED BY <1>1, <1>3, <1>c, <3>3
  <2> QED BY <2>1, <2>2
<1>5. v % W = e
  BY <1>1, <1>c
<1>6. (v - from) % W = 0
  <2>1. v - from = W * (c - a) + 0 /\ 0 \in 0..W-1
    BY <1>1, <1>c
  <2>2. (W * (c - a) + 0) % W = 0
    BY <1>1, <2>1
  <2> QED BY <2>1, <2>2
<1>7. v - (v % W) = d - (d % W)
  BY <1>1, <1>3, <1>5, <1>b, <1>c
<1> QED BY <1>4, <1>6, <1>7

\* The week of a day between two of the same week, or of one day more unless that begins one.
LEMMA WeekGoesOn ==
    ASSUME NEW W \in Nat \ {0}, NEW d \in Int, NEW last \in Int, NEW to \in Int,
           d <= last, d <= to, to <= last + 1, d - (d % W) = last - (last % W),
           to = last + 1 => last % W < W - 1
    PROVE  d - (d % W) = to - (to % W)
<1>a. PICK b, f, g, p : b = last \div W /\ f = last % W /\ g = d % W /\ p = W*b
  OBVIOUS
<1>1. /\ b \in Int /\ p \in Int /\ f \in 0..W-1 /\ g \in 0..W-1
      /\ last = p + f /\ d = p + g
  BY <1>a
<1>b. PICK h : h = to - p
  OBVIOUS
<1>2. h \in 0..W-1 /\ to = p + h
  <2>1. h \in Int /\ to = p + h /\ 0 <= h
    BY <1>1, <1>b
  <2>2. CASE to = last + 1
    <3>1. f < W - 1
      BY <1>a, <2>2
    <3> QED BY <1>1, <1>b, <2>1, <2>2, <3>1
  <2>3. CASE to # last + 1
    BY <1>1, <1>b, <2>1, <2>3
  <2> QED BY <2>2, <2>3
<1>3. (W*b + h) % W = h
  BY <1>1, <1>2
<1>4. to % W = h /\ d % W = g
  BY <1>2, <1>3, <1>a
<1> QED BY <1>1, <1>2, <1>4

\* The months of a period are the first one and those that begin in it.
LEMMA MonthIsVisited ==
    ASSUME NEW M \in Nat \ {0}, NEW from \in Int, NEW to \in Int, NEW d \in from..to
    PROVE  \E v \in from..to : (v = from \/ v % M = 0) /\ v \div M = d \div M
<1>a. PICK c, a : c = d \div M /\ a = from \div M
  OBVIOUS
<1>1. c \in Int /\ a \in Int /\ d = M*c + (d % M) /\ d % M \in 0..M-1 /\ M*c \in Int
      /\ from = M*a + (from % M) /\ from % M \in 0..M-1 /\ M*a \in Int
  BY <1>a
<1>2. CASE from <= M*c
  <2>1. (M*c + 0) % M = 0 /\ (M*c + 0) \div M = c
    <3>1. 0 \in 0..M-1
      OBVIOUS
    <3> QED BY <1>1, <3>1
  <2>2. M*c \in from..to /\ M*c + 0 = M*c
    BY <1>1, <1>2
  <2> QED BY <2>1, <2>2, <1>a
<1>3. CASE M*c < from
  <2>1. a <= c
    BY <1>a
  <2>2. CASE a < c
    <3>1. M*(a+1) <= M*c /\ M*(a+1) = M*a + M
      BY <1>1, <2>2
    <3>2. from < M*a + M
      BY <1>1
    <3> QED BY <1>1, <1>3, <3>1, <3>2
  <2>3. CASE a = c
    <3>1. from \in from..to
      OBVIOUS
    <3> QED BY <1>a, <2>3, <3>1
  <2> QED BY <1>1, <2>1, <2>2, <2>3
<1> QED BY <1>1, <1>2, <1>3

\* The dates the cursor visits.
Visits(v, from, granularity) ==
  CASE granularity = "day"  -> TRUE
    [] granularity = "week" -> (v - from) % Week = 0
    [] OTHER                -> v = from \/ v % Month = 0

\* Not a day of a last week that the cursor steps over.
Reached(d, from, to, granularity) ==
  granularity = "week" => from % Week <= to % Week
                          \/ _bucket_key(d, granularity) # _bucket_key(to, granularity)

LEMMA DaysVisited ==
    ASSUME NEW from \in Int, NEW to \in Int, NEW granularity \in {"day", "week", "month"},
           NEW d \in from..to, Reached(d, from, to, granularity)
    PROVE  \E v \in from..to : /\ _bucket_key(v, granularity) = _bucket_key(d, granularity)
                              /\ Visits(v, from, granularity)
<1>1. Week \in Nat \ {0} /\ Month \in Nat \ {0}
  BY ReportsAssumption
<1>2. CASE granularity = "day"
  BY <1>2 DEF Visits
<1>3. CASE granularity = "week"
  <2>1. from % Week <= to % Week \/ d - (d % Week) # to - (to % Week)
    BY <1>3 DEF _bucket_key, Reached
  <2>2. \E v \in from..to : (v - from) % Week = 0 /\ v - (v % Week) = d - (d % Week)
    BY <1>1, <2>1, WeekIsVisited
  <2> QED BY <1>3, <2>2 DEF _bucket_key, Visits
<1>4. CASE granularity = "month"
  <2>1. \E v \in from..to : (v = from \/ v % Month = 0) /\ v \div Month = d \div Month
    BY <1>1, MonthIsVisited
  <2> QED BY <1>4, <2>1 DEF _bucket_key, Visits
<1> QED BY <1>2, <1>3, <1>4

LEMMA BucketsHold ==
    ASSUME NEW dates, NEW from \in Int, NEW to \in Int, Date(dates.from) = from, Date(dates.to) = to,
           NEW granularity \in {"day", "week", "month"}, NEW d \in from..to,
           Reached(d, from, to, granularity)
    PROVE  _bucket_key(d, granularity) \in _enumerate_buckets(dates, granularity)
<1>1. PICK v \in from..to : /\ _bucket_key(v, granularity) = _bucket_key(d, granularity)
                            /\ Visits(v, from, granularity)
  BY DaysVisited
<1>2. _enumerate_buckets(dates, granularity)
        = {_bucket_key(e, granularity) : e \in {e \in from..to : Visits(e, from, granularity)}}
  BY DEF _enumerate_buckets, Visits
<1> QED BY <1>1, <1>2

\* The buckets that a series lacks: when the caller's dates differ from those in UTC, or when
\* it begins later in its week than it ends.
LEMMA BucketsMissed ==
    ASSUME NEW dates, NEW from \in Moment, NEW to \in Moment, dates.from = from, dates.to = to,
           NEW granularity \in {"day", "week", "month"}, NEW d \in from.day..to.day,
           _bucket_key(d, granularity) \notin _enumerate_buckets(dates, granularity)
    PROVE  \/ /\ _bucket_key(d, granularity) = _bucket_key(from.day, granularity)
              /\ Date(from) > from.day
           \/ /\ _bucket_key(d, granularity) = _bucket_key(to.day, granularity)
              /\ \/ Date(to) < to.day
                 \/ granularity = "week" /\ Date(from) % Week > Date(to) % Week
<1>a. PICK first, last : first = Date(from) /\ last = Date(to)
  OBVIOUS
<1>1. /\ from.day \in Int /\ to.day \in Int /\ first \in Int /\ last \in Int /\ d \in Int
      /\ first <= from.day + 1 /\ last \in {to.day - 1, to.day, to.day + 1}
  BY <1>a DEF Moment, Date
<1>2. CASE d < first
  <2>1. d = from.day /\ first > from.day
    BY <1>1, <1>2
  <2> QED BY <1>a, <2>1
<1>3. CASE d > last
  <2>1. d = to.day /\ last < to.day
    BY <1>1, <1>3
  <2> QED BY <1>a, <2>1
<1>4. CASE d \in first..last
  <2>1. /\ granularity = "week" /\ ~(first % Week <= last % Week)
        /\ _bucket_key(d, granularity) = _bucket_key(last, granularity)
    BY <1>1, <1>4, <1>a, BucketsHold DEF Reached
  <2>2. Week \in Nat \ {0} /\ first % Week \in 0..Week-1 /\ last % Week \in 0..Week-1
    BY <1>1, ReportsAssumption
  <2>3. first % Week > last % Week /\ last % Week < Week - 1
    BY <2>1, <2>2
  <2>4. d - (d % Week) = last - (last % Week)
    BY <2>1 DEF _bucket_key
  <2>5. d - (d % Week) = to.day - (to.day % Week)
    <3>1. d <= last /\ d <= to.day /\ to.day <= last + 1
      BY <1>1, <1>4
    <3>a. PICK W, end : W = Week /\ end = to.day
      OBVIOUS
    <3>2. /\ W \in Nat \ {0} /\ d \in Int /\ last \in Int /\ end \in Int /\ d <= last /\ d <= end
          /\ end <= last + 1 /\ d - (d % W) = last - (last % W) /\ last % W < W - 1
      BY <1>1, <2>2, <2>3, <2>4, <3>1, <3>a
    <3>3. d - (d % W) = end - (end % W)
      BY <3>2, WeekGoesOn
    <3> QED BY <3>3, <3>a
  <2> QED BY <1>a, <2>1, <2>3, <2>5 DEF _bucket_key
<1> QED BY <1>1, <1>2, <1>3, <1>4

LEMMA BucketsFinite ==
    ASSUME NEW dates, Date(dates.from) \in Int, Date(dates.to) \in Int, NEW granularity
    PROVE  IsFiniteSet(_enumerate_buckets(dates, granularity))
<1>a. PICK V : V = {d \in Date(dates.from)..Date(dates.to) :
                      CASE granularity = "day"  -> TRUE
                        [] granularity = "week" -> (d - Date(dates.from)) % Week = 0
                        [] OTHER                -> d = Date(dates.from) \/ d % Month = 0}
  OBVIOUS
<1>1. IsFiniteSet(V)
  <2>1. IsFiniteSet(Date(dates.from)..Date(dates.to))
    BY FS_Interval
  <2> QED BY <1>a, <2>1, FS_Subset
<1>b. PICK f, K : f = [d \in V |-> _bucket_key(d, granularity)] /\ K = {_bucket_key(d, granularity) : d \in V}
  OBVIOUS
<1>2. f \in Surjection(V, K)
  BY <1>b DEF Surjection
<1>3. IsFiniteSet(K)
  BY <1>1, <1>2, FS_Surjection
<1>4. K = _enumerate_buckets(dates, granularity)
  BY <1>a, <1>b DEF _enumerate_buckets
<1> QED BY <1>3, <1>4

\* What the lines of an answer are: one for each point.
Labels(label, lines, points) ==
  /\ IsFiniteSet(lines)
  /\ \A line \in lines : label[line] \in DOMAIN points /\ line.counts = points[label[line]]
  /\ \A j, k \in lines : label[j] = label[k] => j = k
  /\ \A b \in DOMAIN points : \E line \in lines : label[line] = b

LEMMA LinesOfPoints ==
    ASSUME NEW points, IsFiniteSet(DOMAIN points), NEW lines,
           \/ lines = {[bucket |-> b, counts |-> points[b]] : b \in DOMAIN points}
           \/ lines = {[technician |-> b, counts |-> points[b]] : b \in DOMAIN points}
           \/ lines = {[key |-> b, counts |-> points[b]] : b \in DOMAIN points}
    PROVE  \E label : Labels(label, lines, points)
<1>1. ASSUME NEW f, f = [b \in DOMAIN points |-> f[b]], lines = {f[b] : b \in DOMAIN points}
      PROVE  IsFiniteSet(lines)
  <2>1. f \in Surjection(DOMAIN points, lines)
    BY <1>1 DEF Surjection
  <2> QED BY <2>1, FS_Surjection
<1>2. CASE lines = {[bucket |-> b, counts |-> points[b]] : b \in DOMAIN points}
  <2>a. PICK f, label : /\ f = [b \in DOMAIN points |-> [bucket |-> b, counts |-> points[b]]]
                        /\ label = [line \in lines |-> line.bucket]
    OBVIOUS
  <2>1. IsFiniteSet(lines)
    BY <1>1, <1>2, <2>a
  <2>2. Labels(label, lines, points)
    BY <1>2, <2>1, <2>a DEF Labels
  <2> QED BY <2>2
<1>3. CASE lines = {[technician |-> b, counts |-> points[b]] : b \in DOMAIN points}
  <2>a. PICK f, label : /\ f = [b \in DOMAIN points |-> [technician |-> b, counts |-> points[b]]]
                        /\ label = [line \in lines |-> line.technician]
    OBVIOUS
  <2>1. IsFiniteSet(lines)
    BY <1>1, <1>3, <2>a
  <2>2. Labels(label, lines, points)
    BY <1>3, <2>1, <2>a DEF Labels
  <2> QED BY <2>2
<1>4. CASE lines = {[key |-> b, counts |-> points[b]] : b \in DOMAIN points}
  <2>a. PICK f, label : /\ f = [b \in DOMAIN points |-> [key |-> b, counts |-> points[b]]]
                        /\ label = [line \in lines |-> line.key]
    OBVIOUS
  <2>1. IsFiniteSet(lines)
    BY <1>1, <1>4, <2>a
  <2>2. Labels(label, lines, points)
    BY <1>4, <2>1, <2>a DEF Labels
  <2> QED BY <2>2
<1> QED BY <1>2, <1>3, <1>4

\* The tickets that have a key, and those among them that have a verdict.
At(set, key, k) == {t \in set : key[t] = k}
VerdictAt(set, key, k, verdict) ==
  {t \in set : key[t] = k /\ calculate_sla(tickets[t]) = verdict}

\* What the lines say of some tickets.
Tallies(counts, lines, set, key, label) ==
  DOMAIN counts = lines /\ \A line \in lines : counts[line] = Cardinality(At(set, key, label[line]))

\* The sum over the lines, and those whose key has no point, are the whole.
AddsUpTo(counts, set, key, points) ==
  SumOver(counts) + Cardinality({t \in set : key[t] \notin DOMAIN points}) = Cardinality(set)

LEMMA SeriesSum ==
    ASSUME IInv, NEW W, W \subseteq All, NEW key, NEW lines, NEW points, NEW label,
           Labels(label, lines, points), NEW counts, Tallies(counts, lines, W, key, label)
    PROVE  AddsUpTo(counts, W, key, points)
<1>a. PICK X, Y : /\ X = {t \in W : \E line \in lines : key[t] = label[line]}
                  /\ Y = {t \in W : key[t] \notin DOMAIN points}
  OBVIOUS
<1>1. /\ IsFiniteSet(W) /\ IsFiniteSet(X) /\ IsFiniteSet(Y)
      /\ Cardinality(X) \in Nat /\ Cardinality(Y) \in Nat
  <2>1. X \subseteq All /\ Y \subseteq All
    BY <1>a
  <2> QED BY <2>1, Finite
<1>2. SumOver(counts) = Cardinality(X)
  <2>1. IsFiniteSet(lines) /\ \A j, k \in lines : label[j] = label[k] => j = k
    BY DEF Labels
  <2>2. \A line \in lines : counts[line] = Cardinality({t \in W : key[t] = label[line]})
    BY DEF At, Tallies
  <2> QED BY <1>1, <1>a, <2>1, <2>2, SumByLabel DEF Tallies
<1>3. X \cup Y = W /\ X \cap Y = {}
  BY <1>a DEF Labels
<1>4. Cardinality(W) = Cardinality(X) + Cardinality(Y) - Cardinality({})
  BY <1>1, <1>3, FS_Union
<1>5. Cardinality({}) = 0
  BY FS_EmptySet
<1> QED BY <1>1, <1>2, <1>4, <1>5, <1>a DEF AddsUpTo

\* Two disjoint parts are not larger than the whole.
LEMMA TwoParts ==
    ASSUME IInv, NEW R, R \subseteq All, NEW A, NEW B, A \subseteq R, B \subseteq R, A \cap B = {}
    PROVE  Cardinality(A) + Cardinality(B) <= Cardinality(R)
<1>1. /\ IsFiniteSet(R) /\ Cardinality(R) \in Nat /\ IsFiniteSet(A) /\ Cardinality(A) \in Nat
      /\ IsFiniteSet(B) /\ Cardinality(B) \in Nat
  BY Finite
<1>2. Cardinality(A \cup B) = Cardinality(A) + Cardinality(B) - Cardinality(A \cap B)
  BY <1>1, FS_Union
<1>3. Cardinality(A \cap B) = 0
  BY FS_EmptySet
<1>4. Cardinality(A \cup B) <= Cardinality(R)
  <2>1. A \cup B \in SUBSET R
    OBVIOUS
  <2> QED BY <1>1, <2>1, FS_Subset
<1> QED BY <1>1, <1>2, <1>3, <1>4

--------------------------------------------------------------------------
\* The points of a series count what was read, by one key, and what was resolved, by another.
Counted(points, read, opened, set, resolved) ==
  \A b \in DOMAIN points :
    /\ points[b].opened_count = Cardinality(At(read, opened, b))
    /\ points[b].resolved_count = Cardinality(At(set, resolved, b))
    /\ points[b].sla_met = Cardinality(VerdictAt(set, resolved, b, "met"))
    /\ points[b].sla_breached = Cardinality(VerdictAt(set, resolved, b, "breached"))

LEMMA TrendPoints ==
    ASSUME NEW dates, NEW granularity, NEW read, NEW points, points = get_kpi_trend(dates, granularity, read),
           NEW set, set = ResolvedIn(dates),
           NEW opened, opened = [t \in DOMAIN read |-> _bucket_key(tickets[t].created, granularity)],
           NEW resolved, resolved = [t \in set |-> _bucket_key(Seen(t, read), granularity)]
    PROVE  /\ DOMAIN points = _enumerate_buckets(dates, granularity)
           /\ Counted(points, DOMAIN read, opened, set, resolved)
<1>1. DOMAIN points = _enumerate_buckets(dates, granularity)
  BY DEF get_kpi_trend
<1>2. ASSUME NEW b \in DOMAIN points
      PROVE  /\ points[b].opened_count = Cardinality(At(DOMAIN read, opened, b))
             /\ points[b].resolved_count = Cardinality(At(set, resolved, b))
             /\ points[b].sla_met = Cardinality(VerdictAt(set, resolved, b, "met"))
             /\ points[b].sla_breached = Cardinality(VerdictAt(set, resolved, b, "breached"))
  <2>a. PICK O, R, M, B :
          /\ O = {t \in DOMAIN read : _bucket_key(tickets[t].created, granularity) = b}
          /\ R = {t \in ResolvedIn(dates) : _bucket_key(Seen(t, read), granularity) = b}
          /\ M = {t \in ResolvedIn(dates) : _bucket_key(Seen(t, read), granularity) = b
                                              /\ calculate_sla(tickets[t]) = "met"}
          /\ B = {t \in ResolvedIn(dates) : _bucket_key(Seen(t, read), granularity) = b
                                              /\ calculate_sla(tickets[t]) = "breached"}
    OBVIOUS
  <2>1. points[b] = [opened_count |-> Cardinality(O), resolved_count |-> Cardinality(R),
                     sla_met |-> Cardinality(M), sla_breached |-> Cardinality(B)]
    <3>1. points[b] =
          [opened_count   |-> Cardinality({t \in DOMAIN read : _bucket_key(tickets[t].created, granularity) = b}),
           resolved_count |-> Cardinality({t \in ResolvedIn(dates) : _bucket_key(Seen(t, read), granularity) = b}),
           sla_met        |-> Cardinality({t \in ResolvedIn(dates) : _bucket_key(Seen(t, read), granularity) = b
                                                       /\ calculate_sla(tickets[t]) = "met"}),
           sla_breached   |-> Cardinality({t \in ResolvedIn(dates) : _bucket_key(Seen(t, read), granularity) = b
                                                       /\ calculate_sla(tickets[t]) = "breached"})]
      BY <1>1, Zenon DEF get_kpi_trend, Count
    <3> QED BY <2>a, <3>1
  <2>2. O = At(DOMAIN read, opened, b) /\ R = At(set, resolved, b)
        /\ M = VerdictAt(set, resolved, b, "met") /\ B = VerdictAt(set, resolved, b, "breached")
    BY <2>a DEF At, VerdictAt
  <2> QED BY <2>1, <2>2
<1> QED BY <1>1, <1>2 DEF Counted

\* What the first statement of a series has read.
HalfRead(dates, read) ==
  /\ dates.from \in Moment /\ dates.to \in Moment
  /\ DOMAIN read \subseteq All
  /\ \A t \in DOMAIN read : /\ In(tickets[t].created, dates)
                            /\ read[t] # None => tickets[t].resolved = read[t]

\* The days a series counts its tickets at: as stamped, and days of its period.
LEMMA DaysOfPeriod ==
    ASSUME IInv, NEW dates, NEW read, HalfRead(dates, read), ~Stale(dates, read)
    PROVE  \A t \in ResolvedIn(dates) : Seen(t, read) = tickets[t].resolved
BY DEF HalfRead, Stale, Seen

LEMMA TrendStep ==
    ASSUME IInv, NEW dates, NEW granularity \in {"day", "week", "month"}, NEW read,
           HalfRead(dates, read), ~Stale(dates, read), NEW csv \in BOOLEAN,
           NEW points, points = get_kpi_trend(dates, granularity, read), UNCHANGED tickets,
           view'.csv = csv, view'.dates = dates, view'.granularity = granularity, view'.read = read,
           view'.total = Cardinality(ResolvedIn(dates)),
           view'.answer = IF csv THEN export_kpi_trend_csv(points) ELSE points
    PROVE  /\ TrendAddsUp'
           /\ \A line \in Lines' :
                line.counts.sla_met + line.counts.sla_breached <= line.counts.resolved_count
<1>a. PICK O, R, V :
        /\ V = ResolvedIn(dates)
        /\ O = [t \in DOMAIN read |-> _bucket_key(tickets[t].created, granularity)]
        /\ R = [t \in V |-> _bucket_key(Seen(t, read), granularity)]
  OBVIOUS
<1>1. DOMAIN points = _enumerate_buckets(dates, granularity) /\ Counted(points, DOMAIN read, O, V, R)
  BY <1>a, TrendPoints
<1>2. IsFiniteSet(DOMAIN points)
  <2>1. Date(dates.from) \in Int /\ Date(dates.to) \in Int
    BY DEF HalfRead, Moment, Date
  <2> QED BY <1>1, <2>1, BucketsFinite
<1>b. PICK lines : lines = Lines'
  OBVIOUS
<1>3. \/ lines = {[bucket |-> b, counts |-> points[b]] : b \in DOMAIN points}
      \/ lines = {[key |-> b, counts |-> points[b]] : b \in DOMAIN points}
  BY <1>b DEF Lines, export_kpi_trend_csv
<1>4. PICK label : Labels(label, lines, points)
  BY <1>2, <1>3, LinesOfPoints
<1>5. V \subseteq All /\ DOMAIN read \subseteq All
  BY <1>a DEF ResolvedIn, HalfRead
<1>c. PICK opened, resolved : /\ opened = [line \in lines |-> line.counts.opened_count]
                              /\ resolved = [line \in lines |-> line.counts.resolved_count]
  OBVIOUS
<1>6. AddsUpTo(opened, DOMAIN read, O, points)
  <2>1. Tallies(opened, lines, DOMAIN read, O, label)
    BY <1>1, <1>4, <1>c DEF Labels, Counted, Tallies
  <2> QED BY <1>4, <1>5, <2>1, SeriesSum
<1>7. AddsUpTo(resolved, V, R, points)
  <2>1. Tallies(resolved, lines, V, R, label)
    BY <1>1, <1>4, <1>c DEF Labels, Counted, Tallies
  <2> QED BY <1>4, <1>5, <2>1, SeriesSum
<1>8. \A day : Missing(day)' <=> _bucket_key(day, granularity) \notin DOMAIN points
  <2>1. CASE csv
    <3>a. PICK file : file = export_kpi_trend_csv(points)
      OBVIOUS
    <3>1. {line.bucket : line \in file} = DOMAIN points
      <4>1. \A line \in file : line.bucket \in DOMAIN points
        BY <3>a DEF export_kpi_trend_csv
      <4>2. ASSUME NEW b \in DOMAIN points
            PROVE  \E line \in file : line.bucket = b
        <5>1. [bucket |-> b, counts |-> points[b]] \in file
          BY <3>a DEF export_kpi_trend_csv
        <5> QED BY <5>1
      <4> QED BY <4>1, <4>2
    <3>2. view'.csv /\ view'.answer = file /\ view'.granularity = granularity
      BY <2>1, <3>a
    <3> QED BY <3>1, <3>2 DEF Missing
  <2>2. CASE ~csv
    BY <2>2 DEF Missing
  <2> QED BY <2>1, <2>2
<1>d. PICK A, B : /\ A = {t \in DOMAIN read : O[t] \notin DOMAIN points}
                  /\ B = {t \in V : R[t] \notin DOMAIN points}
  OBVIOUS
<1>9. /\ Count(DOMAIN view.read, LAMBDA t : Missing(tickets[t].created))' = Cardinality(A)
      /\ Count(ResolvedIn(view.dates), LAMBDA t : Missing(tickets[t].resolved))' = Cardinality(B)
  <2>1. ResolvedIn(view.dates)' = V
    BY <1>a DEF ResolvedIn, In, All
  <2>2. {t \in DOMAIN read : Missing(tickets[t].created)'} = A
    BY <1>8, <1>a, <1>d
  <2>3. {t \in V : Missing(tickets[t].resolved)'} = B
    BY <1>8, <1>a, <1>d, DaysOfPeriod
  <2> QED BY <2>1, <2>2, <2>3 DEF Count
<1>10. ASSUME NEW day \in dates.from.day..dates.to.day, Missing(day)'
       PROVE  \/ SameBucket(day, dates.from.day)' /\ Date(dates.from) > dates.from.day
              \/ /\ SameBucket(day, dates.to.day)'
                 /\ \/ Date(dates.to) < dates.to.day
                    \/ granularity = "week" /\ Date(dates.from) % Week > Date(dates.to) % Week
  <2>1. _bucket_key(day, granularity) \notin _enumerate_buckets(dates, granularity)
    BY <1>1, <1>8, <1>10
  <2>2. dates.from \in Moment /\ dates.to \in Moment
    BY DEF HalfRead
  <2>3. \A other : SameBucket(day, other)'
                     <=> _bucket_key(day, granularity) = _bucket_key(other, granularity)
    BY DEF SameBucket
  <2> QED BY <2>1, <2>2, <2>3, BucketsMissed
<1>11. TrendAddsUp'
  <2>1. SumOver([line \in Lines |-> line.counts.opened_count])' = SumOver(opened)
        /\ SumOver([line \in Lines |-> line.counts.resolved_count])' = SumOver(resolved)
    BY <1>b, <1>c
  <2>2. /\ SumOver(opened) + Cardinality(A) = Cardinality(DOMAIN read)
        /\ SumOver(resolved) + Cardinality(B) = Cardinality(V)
    BY <1>6, <1>7, <1>d DEF AddsUpTo
  <2> QED BY <1>9, <1>10, <1>a, <2>1, <2>2 DEF TrendAddsUp
<1>12. ASSUME NEW line \in lines
       PROVE  line.counts.sla_met + line.counts.sla_breached <= line.counts.resolved_count
  <2>a. PICK b, M, C, W :
          /\ b = label[line] /\ W = At(V, R, b)
          /\ M = VerdictAt(V, R, b, "met") /\ C = VerdictAt(V, R, b, "breached")
    OBVIOUS
  <2>1. b \in DOMAIN points /\ line.counts = points[b]
    BY <1>4, <2>a DEF Labels
  <2>2. Cardinality(M) + Cardinality(C) <= Cardinality(W)
    <3>1. W \subseteq All /\ M \subseteq W /\ C \subseteq W /\ M \cap C = {}
      BY <1>5, <2>a DEF At, VerdictAt
    <3> QED BY <3>1, TwoParts
  <2> QED BY <1>1, <2>1, <2>2, <2>a DEF Counted
<1> QED BY <1>11, <1>12, <1>b

--------------------------------------------------------------------------
(* The technicians *)

LEMMA TechnicianStep ==
    ASSUME IInv, NEW dates, NEW csv \in BOOLEAN, NEW items, items = get_technician_kpis(dates),
           view'.csv = csv, view'.answer = IF csv THEN export_technician_kpis_csv(items) ELSE items
    PROVE  \A line \in Lines' :
             line.counts.sla_met + line.counts.sla_breached <= line.counts.tickets_resolved
<1>a. PICK set : set = {t \in ResolvedIn(dates) : tickets[t].assignee # None}
  OBVIOUS
<1>b. PICK of : of = [t \in set |-> tickets[t].assignee]
  OBVIOUS
<1>1. set \subseteq All
  BY <1>a DEF ResolvedIn
<1>2. DOMAIN items = {of[t] : t \in set}
  BY <1>a, <1>b DEF get_technician_kpis
<1>3. IsFiniteSet(DOMAIN items)
  BY <1>1, <1>2, Finite, FiniteKeys
<1>4. ASSUME NEW u \in DOMAIN items
      PROVE  /\ items[u].tickets_resolved = Cardinality(At(set, of, u))
             /\ items[u].sla_met = Cardinality(VerdictAt(set, of, u, "met"))
             /\ items[u].sla_breached = Cardinality(VerdictAt(set, of, u, "breached"))
  <2>a. PICK R, M, B :
          /\ R = {t \in set : tickets[t].assignee = u}
          /\ M = {t \in set : tickets[t].assignee = u /\ calculate_sla(tickets[t]) = "met"}
          /\ B = {t \in set : tickets[t].assignee = u /\ calculate_sla(tickets[t]) = "breached"}
    OBVIOUS
  <2>1. items[u] = [tickets_resolved |-> Cardinality(R), sla_met |-> Cardinality(M),
                    sla_breached |-> Cardinality(B)]
    BY <1>a, <2>a DEF get_technician_kpis, Count
  <2>2. R = At(set, of, u) /\ M = VerdictAt(set, of, u, "met") /\ B = VerdictAt(set, of, u, "breached")
    BY <1>b, <2>a DEF At, VerdictAt
  <2> QED BY <2>1, <2>2
<1>c. PICK lines : lines = Lines'
  OBVIOUS
<1>5. \/ lines = {[technician |-> b, counts |-> items[b]] : b \in DOMAIN items}
      \/ lines = {[key |-> b, counts |-> items[b]] : b \in DOMAIN items}
  BY <1>c DEF Lines, export_technician_kpis_csv
<1>6. PICK label : Labels(label, lines, items)
  BY <1>3, <1>5, LinesOfPoints
<1>7. ASSUME NEW line \in lines
      PROVE  line.counts.sla_met + line.counts.sla_breached <= line.counts.tickets_resolved
  <2>a. PICK u, A, B, C :
          /\ u = label[line] /\ C = At(set, of, u)
          /\ A = VerdictAt(set, of, u, "met") /\ B = VerdictAt(set, of, u, "breached")
    OBVIOUS
  <2>1. u \in DOMAIN items /\ line.counts = items[u]
    BY <1>6, <2>a DEF Labels
  <2>2. Cardinality(A) + Cardinality(B) <= Cardinality(C)
    <3>1. C \subseteq All /\ A \subseteq C /\ B \subseteq C /\ A \cap B = {}
      BY <1>1, <2>a DEF At, VerdictAt
    <3> QED BY <3>1, TwoParts
  <2> QED BY <1>4, <2>1, <2>2, <2>a
<1> QED BY <1>7, <1>c

--------------------------------------------------------------------------
(* The overview *)

LEMMA MinOfTwo ==
    ASSUME NEW a \in Int, NEW b \in Int
    PROVE  Min({a, b}) = IF a <= b THEN a ELSE b
<1>1. \E x \in {a, b} : \A y \in {a, b} : x <= y
  OBVIOUS
<1>2. Min({a, b}) \in {a, b} /\ \A y \in {a, b} : Min({a, b}) <= y
  BY <1>1 DEF Min
<1> QED BY <1>2

LEMMA MaxOfTwo ==
    ASSUME NEW a \in Int, NEW b \in Int
    PROVE  Max({a, b}) = IF a >= b THEN a ELSE b
<1>1. \E x \in {a, b} : \A y \in {a, b} : x >= y
  OBVIOUS
<1>2. Max({a, b}) \in {a, b} /\ \A y \in {a, b} : Max({a, b}) >= y
  BY <1>1 DEF Max
<1> QED BY <1>2

\* A page is as long as the rest of the list, up to the limit.
LEMMA PageSize ==
    ASSUME IInv, NEW set, set \subseteq All, NEW part, part.skip \in Nat, part.limit \in Nat,
           NEW page \in Pages(set, part)
    PROVE  Cardinality(page) = Min({part.limit, Max({0, Cardinality(set) - part.skip})})
<1>a. PICK n, skip, limit : n = Cardinality(set) /\ skip = part.skip /\ limit = part.limit
  OBVIOUS
<1>1. n \in Nat /\ skip \in Nat /\ limit \in Nat
  BY <1>a, Finite
<1>b. PICK from, to : from = Position(skip, n) /\ to = Position(skip + limit, n)
  OBVIOUS
<1>2. Cardinality(page) = Max({0, to - from})
  BY <1>a, <1>b DEF Pages, kSubset
<1>3. from = (IF skip <= n THEN skip ELSE n) /\ to = (IF skip + limit <= n THEN skip + limit ELSE n)
  <2>1. Min({skip, n}) = (IF skip <= n THEN skip ELSE n)
        /\ Min({skip + limit, n}) = (IF skip + limit <= n THEN skip + limit ELSE n)
    BY <1>1, MinOfTwo
  <2>2. from = Min({skip, n}) /\ to = Min({skip + limit, n})
    BY <1>1, <1>b DEF Position
  <2> QED BY <2>1, <2>2
<1>4. from \in Int /\ to \in Int
  BY <1>1, <1>3
<1>5. Max({0, to - from}) = IF 0 >= to - from THEN 0 ELSE to - from
  BY <1>4, MaxOfTwo
<1>6. Max({0, n - skip}) = IF 0 >= n - skip THEN 0 ELSE n - skip
  BY <1>1, MaxOfTwo
<1>7. Min({limit, Max({0, n - skip})})
        = IF limit <= Max({0, n - skip}) THEN limit ELSE Max({0, n - skip})
  <2>1. Max({0, n - skip}) \in Int
    BY <1>1, <1>6
  <2> QED BY <1>1, <2>1, MinOfTwo
<1>8. Max({0, to - from}) = Min({limit, Max({0, n - skip})})
  BY <1>1, <1>3, <1>5, <1>6, <1>7
<1> QED BY <1>2, <1>8, <1>a

LEMMA PageStep ==
    ASSUME IInv, NEW filter, NEW part, view'.part = part,
           view'.answer \in Pages(Matching(filter), part),
           ~view'.overtaken => view'.read = Matching(filter)
    PROVE  PageFits'
<1> SUFFICES ASSUME ~view'.overtaken, {part.skip, part.limit} \subseteq Nat
             PROVE  Cardinality(view'.answer)
                      = Min({part.limit, Max({0, Cardinality(view'.read) - part.skip})})
  BY DEF PageFits
<1>a. PICK set, page : set = Matching(filter) /\ page = view'.answer
  OBVIOUS
<1>1. set \subseteq All
  BY <1>a DEF Matching
<1>2. Cardinality(page) = Min({part.limit, Max({0, Cardinality(set) - part.skip})})
  BY <1>1, <1>a, PageSize
<1> QED BY <1>2, <1>a

--------------------------------------------------------------------------
(* Between the statements of a report *)

ViewColumns == {"at", "kind", "status", "csv", "dates", "granularity", "read", "filter", "part",
                "answer", "total", "overtaken", "edited"}

\* What a report has read, and will read again.
ViewOK ==
  /\ DOMAIN view = ViewColumns
  /\ view.at \in DOMAIN Following =>
       /\ view.csv \in BOOLEAN /\ view.kind = "dashboard"
       /\ Asked(view.at, view.read, view.edited, view.answer)
  /\ view.at = "half" =>
       /\ view.csv \in BOOLEAN
       /\ \/ /\ view.kind = "trend" /\ view.granularity \in {"day", "week", "month"}
             /\ HalfRead(view.dates, view.read)
          \/ /\ view.kind = "overview"
             /\ ~view.overtaken => view.read = Matching(view.filter)

DeskInv == ViewOK /\ ReportsAddUp

LEMMA DatesOfPeriod ==
    ASSUME IInv, NEW period \in Period
    PROVE  _resolve_period(period).from \in Moment /\ _resolve_period(period).to \in Moment
<1>a. PICK to, from : /\ to = IF period.to = None THEN [day |-> today, shift |-> 0] ELSE period.to
                      /\ from = IF period.from = None THEN [to EXCEPT !.day = @ - DefaultDays]
                                ELSE period.from
  OBVIOUS
<1>1. period.from \in Moment \cup {None} /\ period.to \in Moment \cup {None} /\ DefaultDays \in Int
  BY ReportsAssumption
<1>2. today \in Int
  BY Parts
<1>3. to \in Moment
  BY <1>1, <1>2, <1>a DEF Moment
<1>4. from \in Moment
  BY <1>1, <1>3, <1>a DEF Moment
<1> QED BY <1>3, <1>4, <1>a DEF _resolve_period

\* Tickets stay; when they were opened and first resolved does not change.
LEMMA TicketsStay ==
    ASSUME IInv, [DeskNext]_desk, NEW t \in All
    PROVE  /\ t \in All' /\ tickets'[t].created = tickets[t].created
           /\ tickets[t].resolved # None => tickets'[t].resolved = tickets[t].resolved
<1>1. CASE tickets' = tickets
  BY <1>1 DEF All
<1>2. ASSUME NEW s \in Session, CommitTicket(s)
      PROVE  t \in All' /\ tickets'[t] = tickets[t]
  BY <1>2, Parts DEF CommitTicket, All
<1>3. ASSUME NEW s \in Session, CommitAnswers(s)
      PROVE  /\ t \in All' /\ tickets'[t].created = tickets[t].created
             /\ tickets'[t].resolved = tickets[t].resolved
  <2>1. DOMAIN tickets[t] = TicketColumns
    BY Parts DEF All, TicketOK
  <2> QED BY <1>3, <2>1 DEF CommitAnswers, All, TicketColumns
<1>4. ASSUME NEW u \in All, ResolveTicket(u) \/ EditPolicy(u) \/ RunsOut(u)
      PROVE  /\ t \in All' /\ tickets'[t].created = tickets[t].created
             /\ tickets[t].resolved # None => tickets'[t].resolved = tickets[t].resolved
  <2>1. DOMAIN tickets[t] = TicketColumns
    BY Parts DEF All, TicketOK
  <2>2. CASE ResolveTicket(u)
    BY <2>1, <2>2 DEF ResolveTicket, All, TicketColumns, Or
  <2>3. CASE RunsOut(u)
    BY <2>1, <2>3 DEF RunsOut, All, TicketColumns
  <2>4. CASE EditPolicy(u)
    BY <2>1, <2>4 DEF EditPolicy, Turned, All, TicketColumns
  <2> QED BY <1>4, <2>2, <2>3, <2>4
<1>5. \/ tickets' = tickets \/ \E s \in Session : CommitTicket(s) \/ CommitAnswers(s)
      \/ \E u \in All : ResolveTicket(u) \/ EditPolicy(u) \/ RunsOut(u)
  <2>1. CASE Next
    <3>1. ASSUME NEW s \in Session, Administer(s)
          PROVE  tickets' = tickets
      BY <3>1 DEF Administer, add_triage_rule, edit_triage_rule, remove_triage_rule, add_catalog_item,
           edit_catalog_item, add_catalog_item_field, edit_catalog_item_field,
           remove_catalog_item_field, Commit, Receive
    <3>2. ASSUME NEW s \in Session, open_ticket(s) \/ add_ticket_from_catalog(s) \/ CreateTicket(s)
                                      \/ ServerError(s)
          PROVE  tickets' = tickets
      BY <3>2 DEF open_ticket, add_ticket_from_catalog, CreateTicket, ServerError, Receive
    <3> QED BY <2>1, <3>1, <3>2 DEF Next, Open, update_subcategory, Tick
  <2>2. CASE read_dashboard_overview \/ read_technician_kpis \/ read_kpi_trend \/ read_tickets_overview
    BY <2>2 DEF read_dashboard_overview, read_technician_kpis, read_kpi_trend,
                read_tickets_overview, Request
  <2>3. CASE ReadClocks \/ ReadAgain \/ UNCHANGED desk
    BY <2>3 DEF ReadClocks, ReadAgain, intake, desk
  <2> QED BY <2>1, <2>2, <2>3 DEF DeskNext
<1> QED BY <1>1, <1>2, <1>3, <1>4, <1>5

\* A request that is refused, or fails, leaves nothing to read.
LEMMA NoRequest ==
    ASSUME NEW status, view' = [NoView EXCEPT !.status = status], status # 200
    PROVE  DeskInv'
<1>1. DOMAIN view' = ViewColumns /\ view'.at = "idle" /\ view'.status # 200
  BY DEF NoView, ViewColumns
<1>2. "idle" \notin DOMAIN Following
  BY DEF Following
<1> QED BY <1>1, <1>2 DEF DeskInv, ViewOK, ReportsAddUp

\* Answers stay what they were, and what was read stays true, while others act.
LEMMA MeanwhileStep ==
    ASSUME IInv, DeskInv, [DeskNext]_desk, NEW edited, Meanwhile(edited)
    PROVE  DeskInv'
<1>1. CASE view.at = "idle"
  <2>1. view' = NoView
    BY <1>1 DEF Meanwhile
  <2>2. DOMAIN view' = ViewColumns /\ view'.at = "idle" /\ view'.status # 200
    BY <2>1 DEF NoView, ViewColumns
  <2>3. "idle" \notin DOMAIN Following
    BY DEF Following
  <2> QED BY <2>2, <2>3 DEF DeskInv, ViewOK, ReportsAddUp
<1>2. CASE view.at # "idle"
  <2>1. /\ view' = [view EXCEPT !.overtaken = @ \/ tickets' # tickets,
                            !.edited = IF view.kind = "dashboard" THEN @ \cup edited ELSE @]
        /\ DOMAIN view = ViewColumns
    BY <1>2 DEF Meanwhile, DeskInv, ViewOK
  <2>2. /\ view'.answer = view.answer /\ view.edited \subseteq view'.edited
        /\ DOMAIN view' = ViewColumns /\ view'.overtaken = (view.overtaken \/ tickets' # tickets)
        /\ view'.at = view.at /\ view'.csv = view.csv /\ view'.kind = view.kind
        /\ view'.granularity = view.granularity /\ view'.dates = view.dates /\ view'.read = view.read
        /\ view'.part = view.part /\ view'.filter = view.filter
    BY <2>1 DEF ViewColumns
  <2>3. ASSUME NEW dates, NEW read, HalfRead(dates, read)
        PROVE  HalfRead(dates, read)'
    <3>1. ASSUME NEW t \in DOMAIN read
          PROVE  /\ t \in All' /\ In(tickets'[t].created, dates)
                 /\ read[t] # None => tickets'[t].resolved = read[t]
      <4>1. /\ t \in All /\ In(tickets[t].created, dates)
            /\ read[t] # None => tickets[t].resolved = read[t]
        BY <2>3 DEF HalfRead
      <4>2. /\ t \in All' /\ tickets'[t].created = tickets[t].created
            /\ tickets[t].resolved # None => tickets'[t].resolved = tickets[t].resolved
        BY <4>1, TicketsStay
      <4> QED BY <4>1, <4>2
    <3> QED BY <2>3, <3>1 DEF HalfRead, In
  <2>4. ASSUME tickets' = tickets, NEW filter
        PROVE  Matching(filter)' = Matching(filter)
    BY <2>4 DEF Matching, All, calculate_sla
  <2>5. ViewOK'
    <3>1. CASE view.at = "half" /\ view.kind = "trend"
      BY <2>2, <2>3, <3>1 DEF DeskInv, ViewOK
    <3>2. CASE view.at = "half" /\ view.kind = "overview"
      BY <2>2, <2>4, <3>2 DEF DeskInv, ViewOK
    <3>3. CASE view.at \in DOMAIN Following
      <4>a. PICK at, read, answer : at = view.at /\ read = view.read /\ answer = view.answer
        OBVIOUS
      <4>1. Asked(at, read, view.edited, answer)
        BY <3>3, <4>a DEF DeskInv, ViewOK
      <4>2. Asked(at, read, view'.edited, answer)
        BY <2>2, <4>1 DEF Asked, SettledOK, LaterOK, VolumesOK
      <4>3. view.at # "half"
        BY <3>3 DEF Following
      <4> QED BY <2>2, <3>3, <4>2, <4>3, <4>a DEF DeskInv, ViewOK
    <3> QED BY <2>2, <3>1, <3>2, <3>3 DEF DeskInv, ViewOK
  <2> QED BY <1>2, <2>2, <2>5 DEF DeskInv, ReportsAddUp
<1> QED BY <1>1, <1>2

\* A report's answer, all of it read at once.
LEMMA ReportAnswers ==
    ASSUME NEW kind, NEW csv, NEW dates, NEW granularity, NEW read, NEW answer,
           view' = Report(kind, csv, dates, granularity, read, answer)
    PROVE  /\ DOMAIN view' = ViewColumns /\ view'.at = "idle" /\ view'.kind = kind /\ view'.csv = csv
           /\ view'.dates = dates /\ view'.granularity = granularity /\ view'.read = read
           /\ view'.answer = answer /\ ~view'.overtaken
BY DEF Report, NoView, ViewColumns

LEMMA DashboardRequest ==
    ASSUME IInv, read_dashboard_overview
    PROVE  DeskInv'
<1>1. PICK period \in Period :
        LET dates == _resolve_period(period)
            read  == [t \in OpenedIn(dates) |-> tickets[t]]
        IN Request([csv \in BOOLEAN |->
             {[Report("dashboard", csv, dates, "day", read, volumes(read))
                 EXCEPT !.at = "sla_compliance_by_priority"]}])
  BY DEF read_dashboard_overview
<1>a. PICK dates, read, answer : /\ dates = _resolve_period(period)
                                 /\ read = [t \in OpenedIn(dates) |-> tickets[t]]
                                 /\ answer = volumes(read)
  OBVIOUS
<1>2. \/ \E csv \in BOOLEAN :
           view' = [Report("dashboard", csv, dates, "day", read, answer)
                      EXCEPT !.at = "sla_compliance_by_priority"]
      \/ view' = [NoView EXCEPT !.status = 403]
  BY <1>1, <1>a DEF Request
<1>3. CASE \E csv \in BOOLEAN :
             view' = [Report("dashboard", csv, dates, "day", read, answer)
                        EXCEPT !.at = "sla_compliance_by_priority"]
  <2>1. PICK csv \in BOOLEAN :
          view' = [Report("dashboard", csv, dates, "day", read, answer)
                     EXCEPT !.at = "sla_compliance_by_priority"]
    BY <1>3
  <2>2. /\ DOMAIN view' = ViewColumns /\ view'.at = "sla_compliance_by_priority"
        /\ view'.kind = "dashboard" /\ view'.csv = csv /\ view'.read = read
        /\ view'.answer = answer /\ view'.edited = {}
    BY <2>1 DEF Report, NoView, ViewColumns
  <2>3. Asked("sla_compliance_by_priority", read, {}, answer)
    <3>1. Loaded(read)
      <4>1. OpenedIn(dates) \subseteq All /\ DOMAIN read = OpenedIn(dates)
        BY <1>a DEF OpenedIn
      <4>2. \A t \in All : DOMAIN tickets[t] = TicketColumns
        BY Parts DEF All, TicketOK
      <4> QED BY <1>a, <4>1, <4>2, Finite DEF Loaded
    <3>2. DOMAIN answer = Volumes \cup {"total_tickets"} /\ VolumesOK(read, answer)
      BY <1>a DEF volumes, Volumes, VolumesOK
    <3>3. Made["sla_compliance_by_priority"] = {}
      BY DEF Made
    <3> QED BY <3>1, <3>2, <3>3 DEF Asked, SettledOK, LaterOK
  <2> QED BY <2>2, <2>3 DEF DeskInv, ViewOK, ReportsAddUp
<1>4. CASE view' = [NoView EXCEPT !.status = 403]
  BY <1>4, NoRequest
<1> QED BY <1>2, <1>3, <1>4

LEMMA TechnicianRequest ==
    ASSUME IInv, read_technician_kpis
    PROVE  DeskInv'
<1>1. PICK period \in Period :
        Request([csv \in BOOLEAN |-> {Report("technicians", csv, _resolve_period(period), "day",
                    ResolvedIn(_resolve_period(period)),
                    IF csv THEN export_technician_kpis_csv(get_technician_kpis(_resolve_period(period)))
                    ELSE get_technician_kpis(_resolve_period(period)))}])
  BY DEF read_technician_kpis
<1>a. PICK dates, items, answers_ : /\ dates = _resolve_period(period) /\ items = get_technician_kpis(dates)
         /\ answers_ = [csv \in BOOLEAN |-> IF csv THEN export_technician_kpis_csv(items) ELSE items]
  OBVIOUS
<1>2. \/ \E csv \in BOOLEAN :
           view' = Report("technicians", csv, dates, "day", ResolvedIn(dates), answers_[csv])
      \/ view' = [NoView EXCEPT !.status = 403]
  BY <1>1, <1>a DEF Request
<1>3. CASE \E csv \in BOOLEAN :
             view' = Report("technicians", csv, dates, "day", ResolvedIn(dates), answers_[csv])
  <2>1. PICK csv \in BOOLEAN :
          view' = Report("technicians", csv, dates, "day", ResolvedIn(dates), answers_[csv])
    BY <1>3
  <2>2. /\ DOMAIN view' = ViewColumns /\ view'.at = "idle" /\ view'.kind = "technicians"
        /\ view'.csv = csv /\ view'.answer = answers_[csv]
    BY <2>1, ReportAnswers
  <2>3. view'.answer = IF csv THEN export_technician_kpis_csv(items) ELSE items
    BY <1>a, <2>2
  <2>4. \A line \in Lines' :
          line.counts.sla_met + line.counts.sla_breached <= line.counts.tickets_resolved
    BY <1>a, <2>2, <2>3, TechnicianStep
  <2> QED BY <2>2, <2>4 DEF DeskInv, ViewOK, ReportsAddUp, Following
<1>4. CASE view' = [NoView EXCEPT !.status = 403]
  BY <1>4, NoRequest
<1> QED BY <1>2, <1>3, <1>4

LEMMA TrendRequest ==
    ASSUME IInv, read_kpi_trend
    PROVE  DeskInv'
<1>1. PICK period \in Period, granularity \in {"day", "week", "month", "other"} :
        Request([csv \in BOOLEAN |->
           {[Report("trend", csv, _resolve_period(period),
                    IF granularity = "other" THEN "day" ELSE granularity,
                    [t \in OpenedIn(_resolve_period(period)) |-> tickets[t].resolved], None)
              EXCEPT !.at = "half"]}])
  BY DEF read_kpi_trend
<1>a. PICK dates, read, by : /\ dates = _resolve_period(period)
         /\ read = [t \in OpenedIn(dates) |-> tickets[t].resolved]
         /\ by = IF granularity = "other" THEN "day" ELSE granularity
  OBVIOUS
<1>2. by \in {"day", "week", "month"}
  BY <1>a
<1>3. HalfRead(dates, read)
  BY <1>a, DatesOfPeriod DEF HalfRead, OpenedIn
<1>4. HalfRead(dates, read)'
  <2>1. UNCHANGED tickets
    BY DEF read_kpi_trend, Request
  <2> QED BY <1>3, <2>1 DEF HalfRead, In, All
<1>5. \/ \E csv \in BOOLEAN : view' = [Report("trend", csv, dates, by, read, None) EXCEPT !.at = "half"]
      \/ view' = [NoView EXCEPT !.status = 403]
  BY <1>1, <1>a DEF Request
<1>6. CASE \E csv \in BOOLEAN : view' = [Report("trend", csv, dates, by, read, None) EXCEPT !.at = "half"]
  <2>1. PICK csv \in BOOLEAN : view' = [Report("trend", csv, dates, by, read, None) EXCEPT !.at = "half"]
    BY <1>6
  <2>2. /\ DOMAIN view' = ViewColumns /\ view'.at = "half" /\ view'.kind = "trend" /\ view'.csv = csv
        /\ view'.dates = dates /\ view'.granularity = by /\ view'.read = read
    BY <2>1 DEF Report, NoView, ViewColumns
  <2> QED BY <1>2, <1>4, <2>2 DEF DeskInv, ViewOK, ReportsAddUp, Following
<1>7. CASE view' = [NoView EXCEPT !.status = 403]
  BY <1>7, NoRequest
<1> QED BY <1>5, <1>6, <1>7

LEMMA OverviewRequest ==
    ASSUME IInv, read_tickets_overview
    PROVE  DeskInv'
<1>1. PICK filter \in Filter, part \in Page :
        LET set == Matching(filter)
        IN Request([csv \in BOOLEAN |->
             LET cut == IF csv THEN [skip |-> 0, limit |-> ExportLimit] ELSE part
                 report(page) == [Report("overview", csv, None, "day", set, page)
                                    EXCEPT !.filter = filter, !.part = cut]
             IN IF filter.sla = None THEN {[report(None) EXCEPT !.at = "half"]}
                ELSE {report(page) : page \in Pages(set, cut)}])
  BY DEF read_tickets_overview
<1>a. PICK set, cuts : /\ set = Matching(filter)
         /\ cuts = [csv \in BOOLEAN |-> IF csv THEN [skip |-> 0, limit |-> ExportLimit] ELSE part]
  OBVIOUS
<1>3. \/ \E csv \in BOOLEAN :
           view' = [[Report("overview", csv, None, "day", set, None)
                       EXCEPT !.filter = filter, !.part = cuts[csv]] EXCEPT !.at = "half"]
      \/ \E csv \in BOOLEAN : \E page \in Pages(set, cuts[csv]) :
           view' = [Report("overview", csv, None, "day", set, page)
                      EXCEPT !.filter = filter, !.part = cuts[csv]]
      \/ view' = [NoView EXCEPT !.status = 403]
  <2>a. PICK views : views = [csv \in BOOLEAN |->
          LET report(page) == [Report("overview", csv, None, "day", set, page)
                                 EXCEPT !.filter = filter, !.part = cuts[csv]]
          IN IF filter.sla = None THEN {[report(None) EXCEPT !.at = "half"]}
             ELSE {report(page) : page \in Pages(set, cuts[csv])}]
    OBVIOUS
  <2>1. \A csv \in BOOLEAN : cuts[csv] = IF csv THEN [skip |-> 0, limit |-> ExportLimit] ELSE part
    BY <1>a
  <2>2. Request(views)
    BY <1>1, <1>a, <2>1, <2>a
  <2>3. \/ \E csv \in BOOLEAN : view' \in views[csv]
        \/ view' = [NoView EXCEPT !.status = 403]
    BY <2>2 DEF Request
  <2> QED BY <2>3, <2>a
<1>4. Matching(filter)' = set
  <2>1. UNCHANGED tickets
    BY DEF read_tickets_overview, Request
  <2> QED BY <1>a, <2>1 DEF Matching, All, calculate_sla
<1>5. CASE \E csv \in BOOLEAN :
             view' = [[Report("overview", csv, None, "day", set, None)
                         EXCEPT !.filter = filter, !.part = cuts[csv]] EXCEPT !.at = "half"]
  <2>1. PICK csv \in BOOLEAN :
             view' = [[Report("overview", csv, None, "day", set, None)
                         EXCEPT !.filter = filter, !.part = cuts[csv]] EXCEPT !.at = "half"]
    BY <1>5
  <2>2. /\ DOMAIN view' = ViewColumns /\ view'.at = "half" /\ view'.kind = "overview" /\ view'.csv = csv
        /\ view'.filter = filter /\ view'.part = cuts[csv] /\ view'.read = set
    BY <2>1 DEF Report, NoView, ViewColumns
  <2>3. Matching(view.filter)' = view'.read
    BY <1>4, <2>2
  <2> QED BY <2>2, <2>3 DEF DeskInv, ViewOK, ReportsAddUp, Following
<1>6. CASE \E csv \in BOOLEAN : \E page \in Pages(set, cuts[csv]) :
             view' = [Report("overview", csv, None, "day", set, page)
                        EXCEPT !.filter = filter, !.part = cuts[csv]]
  <2>b. PICK csv \in BOOLEAN : \E page \in Pages(set, cuts[csv]) :
             view' = [Report("overview", csv, None, "day", set, page)
                        EXCEPT !.filter = filter, !.part = cuts[csv]]
    BY <1>6
  <2>1. PICK page \in Pages(set, cuts[csv]) :
             view' = [Report("overview", csv, None, "day", set, page)
                        EXCEPT !.filter = filter, !.part = cuts[csv]]
    BY <2>b
  <2>2. /\ DOMAIN view' = ViewColumns /\ view'.at = "idle" /\ view'.kind = "overview"
        /\ view'.part = cuts[csv] /\ view'.answer = page /\ view'.read = set
    BY <2>1 DEF Report, NoView, ViewColumns
  <2>3. PageFits'
    BY <1>a, <2>1, <2>2, PageStep
  <2> QED BY <2>2, <2>3 DEF DeskInv, ViewOK, ReportsAddUp, Following
<1>7. CASE view' = [NoView EXCEPT !.status = 403]
  BY <1>7, NoRequest
<1> QED BY <1>3, <1>5, <1>6, <1>7

LEMMA ReadAgainStep ==
    ASSUME IInv, DeskInv, ReadAgain
    PROVE  DeskInv'
<1>1. view.at = "half" /\ DOMAIN view = ViewColumns /\ view.csv \in BOOLEAN
  BY DEF DeskInv, ViewOK, ReadAgain
<1>2. CASE view.kind = "overview"
  <2>1. ~view.overtaken => view.read = Matching(view.filter)
    BY <1>1, <1>2 DEF DeskInv, ViewOK
  <2>b. CASE view.part.skip < 0 \/ view.part.limit < 0
    <3>1. view' = [NoView EXCEPT !.status = 500]
      BY <1>2, <2>b DEF ReadAgain
    <3> QED BY <3>1, NoRequest
  <2> SUFFICES ASSUME ~(view.part.skip < 0 \/ view.part.limit < 0)
               PROVE  DeskInv'
    BY <2>b
  <2>2. PICK page \in Pages(Matching(view.filter), view.part) :
          view' = [view EXCEPT !.at = "idle", !.answer = page]
    BY <1>2 DEF ReadAgain
  <2>3. /\ DOMAIN view' = ViewColumns /\ view'.at = "idle" /\ view'.kind = "overview"
        /\ view'.part = view.part /\ view'.answer = page /\ view'.read = view.read
        /\ view'.overtaken = view.overtaken
    BY <1>1, <1>2, <2>2 DEF ViewColumns
  <2>a. PICK filter, part : filter = view.filter /\ part = view.part
    OBVIOUS
  <2>4. /\ view'.part = part
        /\ view'.answer \in Pages(Matching(filter), part)
        /\ ~view'.overtaken => view'.read = Matching(filter)
    BY <2>1, <2>2, <2>3, <2>a
  <2>5. PageFits'
    BY <2>4, PageStep
  <2> QED BY <2>3, <2>5 DEF DeskInv, ViewOK, ReportsAddUp, Following
<1>3. CASE view.kind = "trend"
  <2>a. PICK dates, granularity, read, csv :
          /\ dates = view.dates /\ granularity = view.granularity /\ read = view.read /\ csv = view.csv
    OBVIOUS
  <2>1. granularity \in {"day", "week", "month"} /\ HalfRead(dates, read) /\ csv \in BOOLEAN
    BY <1>1, <1>3, <2>a DEF DeskInv, ViewOK
  <2>2. CASE Stale(dates, read)
    <3>1. view' = [NoView EXCEPT !.status = 500]
      BY <1>3, <2>2, <2>a DEF ReadAgain
    <3> QED BY <3>1, NoRequest
  <2>3. CASE ~Stale(dates, read)
    <3>a. PICK points, total : /\ points = get_kpi_trend(dates, granularity, read)
                               /\ total = Cardinality(ResolvedIn(dates))
      OBVIOUS
    <3>1. view' = [view EXCEPT !.at = "idle", !.total = total,
                               !.answer = IF csv THEN export_kpi_trend_csv(points) ELSE points]
      BY <1>3, <2>3, <2>a, <3>a DEF ReadAgain
    <3>2. /\ DOMAIN view' = ViewColumns /\ view'.at = "idle" /\ view'.kind = "trend"
          /\ view'.csv = csv /\ view'.dates = dates /\ view'.granularity = granularity
          /\ view'.read = read /\ view'.total = total
          /\ view'.answer = IF csv THEN export_kpi_trend_csv(points) ELSE points
      BY <1>1, <1>3, <2>a, <3>1 DEF ViewColumns
    <3>3. TrendAddsUp' /\ \A line \in Lines' :
            line.counts.sla_met + line.counts.sla_breached <= line.counts.resolved_count
      <4>1. UNCHANGED tickets
        BY DEF ReadAgain, intake
      <4> QED BY <2>1, <2>3, <3>2, <3>a, <4>1, TrendStep
    <3> QED BY <3>2, <3>3 DEF DeskInv, ViewOK, ReportsAddUp, Following
  <2> QED BY <2>2, <2>3
<1> QED BY <1>1, <1>2, <1>3 DEF DeskInv, ViewOK

LEMMA ReadClocksStep ==
    ASSUME IInv, DeskInv, ReadClocks
    PROVE  DeskInv'
<1>a. PICK at, read, edited, answer, csv :
        /\ at = view.at /\ read = view.read /\ edited = view.edited /\ answer = view.answer
        /\ csv = view.csv
  OBVIOUS
<1>1. /\ at \in DOMAIN Following /\ DOMAIN view = ViewColumns /\ csv \in BOOLEAN
      /\ view.kind = "dashboard" /\ Asked(at, read, edited, answer)
  BY <1>a DEF DeskInv, ViewOK, ReadClocks
<1>c. PICK late \in SUBSET {t \in DOMAIN view.read : MayTurn(t)} :
        LET read_    == [t \in DOMAIN view.read |->
                           IF t \in late THEN Turned(view.read[t]) ELSE view.read[t]]
            overview == [section \in DOMAIN view.answer \cup {view.at} |->
                           IF section = view.at THEN sla_table(section, read_)
                           ELSE view.answer[section]]
            next     == Following[view.at]
        IN view' = [view EXCEPT !.at = next, !.read = read_,
                      !.answer = IF next = "idle" /\ view.csv THEN export_dashboard_csv(overview)
                                 ELSE overview]
  BY DEF ReadClocks
<1>b. PICK more, overview, next, new :
        /\ more = Turns(view.read, late) /\ next = Following[view.at]
        /\ overview = [section \in DOMAIN view.answer \cup {view.at} |->
                         IF section = view.at THEN sla_table(section, more) ELSE view.answer[section]]
        /\ new = IF next = "idle" /\ view.csv THEN export_dashboard_csv(overview) ELSE overview
  OBVIOUS
<1>2. view' = [view EXCEPT !.at = next, !.read = more, !.answer = new]
  BY <1>b, <1>c DEF Turns
<1>3. /\ more = Turns(read, late) /\ next = Following[at] /\ late \subseteq DOMAIN read
      /\ overview = [section \in DOMAIN answer \cup {at} |->
                       IF section = at THEN sla_table(section, more) ELSE answer[section]]
  BY <1>a, <1>b
<1>4. /\ DOMAIN view' = ViewColumns /\ view'.at = next /\ view'.read = more /\ view'.edited = edited
      /\ view'.csv = csv /\ view'.kind = "dashboard" /\ view'.answer = new
      /\ new = IF next = "idle" /\ csv THEN export_dashboard_csv(overview) ELSE overview
  BY <1>1, <1>2, <1>a, <1>b DEF ViewColumns
<1>5. MayBeLate(read, edited, late)
  <2>1. \A t \in late : t \in DOMAIN view.read /\ MayTurn(t)
    OBVIOUS
  <2>2. \A t \in late : t \in edited \/ (read[t].resolved = None /\ read[t].verdict = "running")
    BY <1>a, <2>1 DEF MayTurn
  <2> QED BY <1>3, <2>2 DEF MayBeLate
<1>6. Asked(next, more, edited, overview)
  BY <1>1, <1>3, <1>5, OneMoreTable
<1>7. next \in DOMAIN Following \cup {"idle"}
  BY <1>1, <1>3, Order
<1>8. CASE next = "idle"
  <2>1. DashboardAddsUp'
    <3>1. Asked("idle", view'.read, view'.edited, overview)
          /\ view'.answer = IF csv THEN export_dashboard_csv(overview) ELSE overview
      BY <1>4, <1>6, <1>8
    <3> QED BY <1>1, <1>4, <3>1, DashboardStep
  <2> QED BY <1>4, <1>8, <2>1 DEF DeskInv, ViewOK, ReportsAddUp, Following
<1>9. CASE next \in DOMAIN Following
  <2>1. next # "idle" /\ next # "half"
    BY <1>9 DEF Following
  <2> QED BY <1>1, <1>4, <1>6, <1>9, <2>1 DEF DeskInv, ViewOK, ReportsAddUp
<1> QED BY <1>7, <1>8, <1>9

\* The figures of every report add up, for every period and offset, every alignment with weeks
\* and months, every filter and every page: each table of the dashboard is about all of the
\* tickets or about those its own clocks judge, whichever run out between two tables; a series
\* lacks tickets of its first or last bucket alone, and those only when the caller's date
\* differs from that in UTC or the weeks are cut; whatever is opened and resolved meanwhile.
THEOREM ReportsAlwaysAddUp == DeskSpec => []ReportsAddUp
<1>1. DeskInit => DeskInv
  BY DEF DeskInit, DeskInv, ViewOK, ReportsAddUp, NoView, ViewColumns, Following
<1>2. IInv /\ DeskInv /\ [DeskNext]_desk => DeskInv'
  <2> SUFFICES ASSUME IInv, DeskInv, [DeskNext]_desk
               PROVE  DeskInv'
    OBVIOUS
  <2>1. CASE Next /\ Meanwhile({})
    BY <2>1, MeanwhileStep
  <2>2. CASE \E t \in All : ResolveTicket(t) \/ EditPolicy(t) \/ RunsOut(t)
    <3>1. \E edited : Meanwhile(edited)
      BY <2>2 DEF ResolveTicket, EditPolicy, RunsOut
    <3> QED BY <3>1, MeanwhileStep
  <2>3. CASE UNCHANGED desk
    <3>1. UNCHANGED <<view, tickets>>
      BY <2>3 DEF desk
    <3>2. \A filter : Matching(filter)' = Matching(filter)
      BY <3>1 DEF Matching, All
    <3>3. \A dates, read : HalfRead(dates, read)' <=> HalfRead(dates, read)
      BY <3>1 DEF HalfRead, All
    <3>4. ViewOK'
      BY <3>1, <3>2, <3>3 DEF DeskInv, ViewOK
    <3>5. DashboardAddsUp' <=> DashboardAddsUp
      BY <3>1 DEF DashboardAddsUp, Total, Table, Settled
    <3>6. TrendAddsUp' <=> TrendAddsUp
      BY <3>1 DEF TrendAddsUp, Lines, Missing, SameBucket, Count, ResolvedIn, All
    <3>7. (PageFits' <=> PageFits) /\ Lines' = Lines
      BY <3>1 DEF PageFits, Lines
    <3>8. ReportsAddUp'
      BY <3>1, <3>5, <3>6, <3>7 DEF DeskInv, ReportsAddUp
    <3> QED BY <3>4, <3>8 DEF DeskInv
  <2> QED BY <2>1, <2>2, <2>3, DashboardRequest, TechnicianRequest, TrendRequest, OverviewRequest,
             ReadClocksStep, ReadAgainStep DEF DeskNext
<1>3. DeskInv => ReportsAddUp
  BY DEF DeskInv
<1> QED BY <1>1, <1>2, <1>3, Invariance, PTL DEF DeskSpec
=============================================================================
