------------------------ MODULE KnowledgeBaseProofs ------------------------
(***************************************************************************)
(* Theorems about KnowledgeBase for every number of sessions and requests  *)
(* and every library, set of links and tree of categories to begin with.   *)
(***************************************************************************)
EXTENDS KnowledgeBase, FiniteSetTheorems, TLAPS

RowType == [status : Status, category : Category, sub : Subcategory \cup {None}]

\* A decision, and a request, with all their fields.
Plan(p) == p = [error |-> p.error, op |-> p.op, id |-> p.id, row |-> p.row,
                change |-> p.change, marks |-> p.marks]
Request(c) == c = [at |-> c.at, actor |-> c.actor, plan |-> c.plan, status |-> c.status,
                   found |-> c.found, shown |-> c.shown, seen |-> c.seen,
                   overtaken |-> c.overtaken]

Reads == {"searched", "listed", "unmatched"}
Place == {"idle", "checked", "found", "stored"} \cup Reads

--------------------------------------------------------------------------
(* The inductive invariant *)

\* The subcategory of a row is one of its category now.
Fits(row) == row.sub # None => parent[row.sub] = row.category

\* A row after an UPDATE of some of its columns.
Edited(row, change) ==
  [status   |-> IF "status" \in DOMAIN change THEN change["status"] ELSE row.status,
   category |-> IF "category" \in DOMAIN change THEN change["category"] ELSE row.category,
   sub      |-> IF "sub" \in DOMAIN change THEN change["sub"] ELSE row.sub]

ChangeType(change) ==
  /\ "status" \in DOMAIN change => change["status"] \in Status
  /\ "category" \in DOMAIN change => change["category"] \in Category
  /\ "sub" \in DOMAIN change => change["sub"] \in Subcategory \cup {None}

\* A write marks at most its own link, and its own link is of its ticket.
MarksOK(p) ==
  /\ p.op \notin {"mark", "unmark"} => DOMAIN p.marks = {}
  /\ \A id \in DOMAIN p.marks :
       p.marks[id] \in BOOLEAN /\ (p.marks[id] => p.op = "mark" /\ id = p.id)
  /\ p.op = "mark" =>
       /\ p.row.ticket \in Ticket /\ p.id \in 1..lastLink
       /\ \A l \in links : l.id = p.id => l.ticket = p.row.ticket

\* Every other link of the ticket that is marked now will be unmarked.
ClearsOthers(p) ==
  \A l \in links :
    l.ticket = p.row.ticket /\ l.solution /\ l.id # p.id => l.id \in DOMAIN p.marks /\ ~p.marks[l.id]

\* What a write that is about to commit will do; what it decided on is still so, unless it
\* was overtaken.
WriteOK(p, late) ==
  /\ p.op \in {"none", "create", "edit", "link", "unlink", "mark", "unmark"}
  /\ p.op = "create" => p.row \in RowType /\ (~late => Fits(p.row))
  /\ p.op = "edit" =>
       /\ p.id \in 1..Len(articles) /\ ChangeType(p.change)
       /\ ~late /\ p.id \notin excused => Fits(Edited(articles[p.id], p.change))
  /\ p.op = "link" => p.row \in [ticket : Ticket, article : 1..Len(articles), solution : {FALSE}]
  /\ MarksOK(p)
  /\ p.op = "mark" /\ ~late => ClearsOthers(p)

\* What a mark has decided before it looks at the other links.
MarkOK(p) == p.op = "mark" /\ MarksOK(p) /\ DOMAIN p.marks \subseteq {p.id}

CallOK(c) ==
  /\ Request(c) /\ Plan(c.plan) /\ c.at \in Place
  /\ c.at = "checked" => WriteOK(c.plan, c.overtaken)
  /\ c.at = "found" => MarkOK(c.plan)
  /\ c.actor # "staff" => c.shown \subseteq c.seen
  /\ c.at \in Reads => Published \subseteq c.seen
  /\ c.at = "searched" /\ c.actor # "staff" => c.found \subseteq c.seen

CallInv == DOMAIN call = Session /\ \A s \in Session : CallOK(call[s])

DataType ==
  /\ articles \in Seq(RowType) /\ parent \in [Subcategory -> Category]
  /\ lastLink \in Nat
  /\ links \subseteq [id : 1..lastLink, ticket : Ticket, article : 1..Len(articles),
                      solution : BOOLEAN]
  /\ resolved \subseteq Ticket /\ raced \subseteq Ticket /\ excused \subseteq 1..Len(articles)

\* The keys of the table of links: its id, and the pair of a ticket and an article.
LinkKeys ==
  \A l, k \in links : l.id = k.id \/ (l.ticket = k.ticket /\ l.article = k.article) => l = k

OneMarked ==
  \A l, k \in links :
    l.ticket = k.ticket /\ l.ticket \notin raced /\ l.solution /\ k.solution => l = k

IInv == DataType /\ LinkKeys /\ OneMarked /\ CallInv /\ SubcategoryFits

LEMMA InvTypes == IInv => TypeOK
<1> SUFFICES ASSUME IInv PROVE TypeOK
  OBVIOUS
<1>1. \A a \in Ids : articles[a] \in RowType
  BY DEF IInv, DataType, Ids
<1>2. \A l \in links : /\ l.id \in 1..lastLink /\ l.ticket \in Ticket /\ l.article \in Ids
                       /\ l.solution \in BOOLEAN
  BY DEF IInv, DataType, Ids
<1>3. \A s \in Session : call[s].at \in Place
  BY DEF IInv, CallInv, CallOK
<1> QED
  BY <1>1, <1>2, <1>3 DEF IInv, DataType, LinkKeys, TypeOK, RowType, Place, Reads, Ids

LEMMA AtMostOne ==
    ASSUME NEW M, \A l, k \in M : l = k
    PROVE  Cardinality(M) <= 1
<1>1. CASE M = {}
  BY <1>1, FS_EmptySet
<1>2. CASE M # {}
  <2>1. PICK l \in M : TRUE
    BY <1>2
  <2>2. M = {l}
    BY <2>1
  <2>3. Cardinality({l}) = 1
    BY FS_Singleton
  <2> QED
    BY <2>2, <2>3
<1> QED
  BY <1>1, <1>2

LEMMA InvSingle == IInv => SingleSolution
<1> SUFFICES ASSUME IInv, NEW ticket \in Ticket \ raced
             PROVE  Cardinality({l \in LinksOf(ticket) : l.solution}) <= 1
  BY DEF SingleSolution
<1>1. \A l, k \in {m \in LinksOf(ticket) : m.solution} : l = k
  BY DEF IInv, OneMarked, LinksOf
<1> QED
  BY <1>1, AtMostOne

LEMMA InvDrafts == IInv => DraftsHidden
BY DEF IInv, CallInv, CallOK, DraftsHidden

LEMMA IdleParts ==
    /\ Request(Idle) /\ Plan(Nothing)
    /\ Idle.at = "idle" /\ Idle.actor = "staff" /\ Idle.plan = Nothing /\ Idle.status = 0
    /\ Idle.found = {} /\ Idle.shown = {} /\ Idle.seen = {} /\ Idle.overtaken = FALSE
BY DEF Idle, Request, Nothing, Plan

LEMMA InitInv == Init => IInv
<1> SUFFICES ASSUME Init PROVE IInv
  OBVIOUS
<1>1. Cardinality(Linked) \in Nat
  BY LibraryAssumption, FS_CardinalityType
<1>2. DataType
  BY <1>1, LibraryAssumption DEF Init, DataType, RowType
<1>3. LinkKeys /\ OneMarked
  BY LibraryAssumption DEF Init, LinkKeys, OneMarked
<1>4. CallOK(Idle)
  BY IdleParts DEF CallOK, Place, Reads
<1>5. CallInv
  BY <1>4 DEF Init, CallInv
<1>6. SubcategoryFits
  BY LibraryAssumption DEF Init, SubcategoryFits, Ids
<1> QED
  BY <1>2, <1>3, <1>5, <1>6 DEF IInv

--------------------------------------------------------------------------
(* Steps that leave the tables alone *)

tables == <<articles, parent, links, lastLink, raced, excused>>

LEMMA SameTables ==
    ASSUME NEW c, CallOK(c), UNCHANGED tables
    PROVE  CallOK(c)'
<1>1. \A p : (MarksOK(p)' <=> MarksOK(p)) /\ (ClearsOthers(p)' <=> ClearsOthers(p))
  BY DEF MarksOK, ClearsOthers, tables
<1>2. \A p, late : WriteOK(p, late)' = WriteOK(p, late)
  BY <1>1 DEF WriteOK, Fits, tables
<1>3. Published' = Published
  BY DEF Published, Ids, tables
<1> QED
  BY <1>1, <1>2, <1>3 DEF CallOK, MarkOK

\* One request changes its place.
LEMMA OneCall ==
    ASSUME IInv, NEW s \in Session, NEW c, CallOK(c), call' = [call EXCEPT ![s] = c],
           UNCHANGED tables, resolved' \subseteq Ticket
    PROVE  IInv'
<1>1. CallInv'
  <2>1. DOMAIN call' = Session /\ \A t \in Session : call'[t] = c \/ call'[t] = call[t]
    BY DEF IInv, CallInv
  <2>2. \A t \in Session : CallOK(call'[t])
    BY <2>1 DEF IInv, CallInv
  <2>3. \A t \in Session : CallOK(call[t])'
    BY <2>1, <2>2, SameTables DEF CallOK
  <2> QED
    BY <2>1, <2>3 DEF CallInv
<1>2. DataType' /\ LinkKeys' /\ OneMarked' /\ SubcategoryFits'
  BY DEF IInv, DataType, LinkKeys, OneMarked, SubcategoryFits, Ids, tables
<1> QED
  BY <1>1, <1>2 DEF IInv

--------------------------------------------------------------------------
(* The decisions of the services *)

\* What a service returns is an exception or a write that may commit at once.
Decision(p) ==
  /\ Plan(p)
  /\ p.error = None => IF p.op = "mark" THEN MarkOK(p) ELSE WriteOK(p, FALSE)

LEMMA RaiseIsDecision ==
    ASSUME NEW error \in Error
    PROVE  Decision(Raise(error)) /\ Raise(error).error # None
<1>1. PICK p : p = Raise(error)
  OBVIOUS
<1>2. Plan(p) /\ p.error = error
  BY <1>1 DEF Raise, Nothing, Plan
<1> QED
  BY <1>1, <1>2, LibraryAssumption DEF Decision

LEMMA CreateIsDecision ==
    ASSUME NEW status \in Status, NEW category, NEW sub
    PROVE  Decision(create_article(Article(status, category, sub)))
<1> DEFINE row == Article(status, category, sub)
<1>0. row.status = status /\ row.category = category /\ row.sub = sub
  BY DEF Article
<1>1. CASE _category(category, sub) # None
  <2>1. _category(category, sub) \in Error
    BY <1>1 DEF _category, Error
  <2> QED
    BY <1>0, <1>1, <2>1, RaiseIsDecision DEF create_article
<1>2. CASE _category(category, sub) = None
  <2>1. /\ category \in Category /\ sub \in Subcategory \cup {None}
        /\ sub # None => parent[sub] = category
    BY <1>2, LibraryAssumption DEF _category, Error
  <2>2. row \in RowType /\ Fits(row)
    BY <2>1 DEF RowType, Article, Fits
  <2>3. create_article(row) = [[Nothing EXCEPT !.op = "create"] EXCEPT !.row = row]
    BY <1>0, <1>2 DEF create_article
  <2> HIDE DEF row
  <2>4. PICK p : p = create_article(row)
    OBVIOUS
  <2>5. Plan(p) /\ p.op = "create" /\ p.row = row /\ p.marks = <<>>
    BY <2>3, <2>4 DEF Nothing, Plan
  <2>6. DOMAIN p.marks = {}
    BY <2>5
  <2> QED
    BY <2>2, <2>4, <2>5, <2>6 DEF Decision, WriteOK, MarksOK, row
<1> QED
  BY <1>1, <1>2

\* What is left of the columns that were sent.
LEMMA DifferingFacts ==
    ASSUME NEW row \in RowType, NEW status \in Status \cup {"unset"},
           NEW category \in Category \cup {"unset"}, NEW sub \in Subcategory \cup {None, "unset"},
           NEW change, change = Differing(Article(status, category, sub), row)
    PROVE  /\ ChangeType(change)
           /\ Edited(row, change).category = IF category = "unset" THEN row.category ELSE category
           /\ Edited(row, change).sub = IF sub = "unset" THEN row.sub ELSE sub
<1> DEFINE data == Article(status, category, sub)
<1>1. DOMAIN row = {"status", "category", "sub"}
  BY DEF RowType
<1>2. data.status = status /\ data.category = category /\ data.sub = sub
  BY DEF Article
<1>3. data["status"] = status /\ data["category"] = category /\ data["sub"] = sub
  BY DEF Article
<1>4. row["status"] = row.status /\ row["category"] = row.category /\ row["sub"] = row.sub
  OBVIOUS
<1>5. change = [column \in {c \in DOMAIN row : data[c] \notin {"unset", row[c]}} |-> data[column]]
  BY DEF Differing
<1> HIDE DEF data
<1>6. /\ "status" \in DOMAIN change <=> status \notin {"unset", row.status}
      /\ "category" \in DOMAIN change <=> category \notin {"unset", row.category}
      /\ "sub" \in DOMAIN change <=> sub \notin {"unset", row.sub}
  BY <1>1, <1>3, <1>4, <1>5
<1>7. /\ "status" \in DOMAIN change => change["status"] = status
      /\ "category" \in DOMAIN change => change["category"] = category
      /\ "sub" \in DOMAIN change => change["sub"] = sub
  BY <1>3, <1>5
<1> QED
  BY <1>6, <1>7 DEF ChangeType, Edited

LEMMA EditIsDecision ==
    ASSUME IInv, NEW id, NEW status \in Status \cup {"unset"},
           NEW category \in Category \cup {"unset"}, NEW sub \in Subcategory \cup {None, "unset"}
    PROVE  Decision(update_article(id, Article(status, category, sub)))
<1> DEFINE data == Article(status, category, sub)
           row  == articles[id]
           error == _category(Final(category, row.category), Final(sub, row.sub))
           p    == update_article(id, data)
<1>0. data.status = status /\ data.category = category /\ data.sub = sub
  BY DEF Article
<1>1. error \in Error \cup {None}
  BY DEF _category, Error
<1>2. CASE id \notin Ids
  BY <1>2, RaiseIsDecision DEF update_article, Error
<1>3. CASE id \in Ids /\ (Given(category) \/ Given(sub)) /\ error # None
  <2>1. p = Raise(error)
    BY <1>0, <1>3 DEF update_article
  <2> QED
    BY <1>1, <1>3, <2>1, RaiseIsDecision
<1>4. CASE id \in Ids /\ (Given(category) \/ Given(sub) => error = None)
  <2> DEFINE change == Differing(data, row)
  <2>1. p = [[[Nothing EXCEPT !.op = "edit"] EXCEPT !.id = id] EXCEPT !.change = change]
    BY <1>0, <1>4 DEF update_article
  <2>2. row \in RowType
    BY <1>4 DEF IInv, DataType, Ids
  <2> HIDE DEF row
  <2>3. ChangeType(change) /\ (row.sub = None \/ parent[row.sub] = row.category => Fits(Edited(row, change)))
    <3>1. /\ ChangeType(change)
          /\ Edited(row, change).category = IF category = "unset" THEN row.category ELSE category
          /\ Edited(row, change).sub = IF sub = "unset" THEN row.sub ELSE sub
      BY <2>2, DifferingFacts
    <3>2. CASE ~Given(category) /\ ~Given(sub)
      BY <3>1, <3>2, LibraryAssumption DEF Given, Fits
    <3>3. CASE error = None
      <4>1. LET c == Final(category, row.category) IN LET b == Final(sub, row.sub) IN
              b # None => parent[b] = c
        BY <3>3, LibraryAssumption DEF _category, Error
      <4> QED
        BY <3>1, <4>1, LibraryAssumption DEF Final, Given, Fits
    <3> QED
      BY <1>4, <3>1, <3>2, <3>3
  <2> HIDE DEF change, p
  <2>4. Plan(p) /\ p.op = "edit" /\ p.id = id /\ p.change = change /\ p.marks = <<>>
    BY <2>1 DEF Nothing, Plan
  <2>5. DOMAIN p.marks = {}
    BY <2>4
  <2>6. p.id \notin excused => Fits(Edited(row, p.change))
    BY <1>4, <2>3, <2>4 DEF IInv, SubcategoryFits, row
  <2> QED
    BY <1>4, <2>3, <2>4, <2>5, <2>6 DEF Decision, WriteOK, MarksOK, Ids, row, p
<1> QED
  BY <1>2, <1>3, <1>4

LEMMA LinkIsDecision ==
    ASSUME IInv, NEW ticket, NEW article
    PROVE  Decision(link_article(ticket, article))
<1> DEFINE row == [ticket |-> ticket, article |-> article, solution |-> FALSE]
<1>1. CASE ticket \in Ticket /\ article \in Ids /\ LinkOf(ticket, article) = {}
  <2>1. PICK p : p = link_article(ticket, article)
    OBVIOUS
  <2>2. p = [[Nothing EXCEPT !.op = "link"] EXCEPT !.row = row]
    BY <1>1, <2>1 DEF link_article
  <2>3. row \in [ticket : Ticket, article : 1..Len(articles), solution : {FALSE}]
    BY <1>1 DEF Ids
  <2> HIDE DEF row
  <2>4. Plan(p) /\ p.op = "link" /\ p.row = row /\ p.marks = <<>>
    BY <2>2 DEF Nothing, Plan
  <2>5. DOMAIN p.marks = {}
    BY <2>4
  <2> QED
    BY <2>1, <2>3, <2>4, <2>5 DEF Decision, WriteOK, MarksOK
<1>2. CASE ~(ticket \in Ticket /\ article \in Ids /\ LinkOf(ticket, article) = {})
  BY <1>2, RaiseIsDecision DEF link_article, Error
<1> QED
  BY <1>1, <1>2

LEMMA UnlinkIsDecision ==
    ASSUME NEW ticket, NEW article
    PROVE  Decision(unlink_article(ticket, article))
<1>1. CASE LinkOf(ticket, article) # {}
  <2>1. PICK id : id = (CHOOSE l \in LinkOf(ticket, article) : TRUE).id
    OBVIOUS
  <2>2. PICK p : p = unlink_article(ticket, article)
    OBVIOUS
  <2>3. p = [[Nothing EXCEPT !.op = "unlink"] EXCEPT !.id = id]
    BY <1>1, <2>1, <2>2 DEF unlink_article
  <2>4. Plan(p) /\ p.op = "unlink" /\ p.marks = <<>>
    BY <2>3 DEF Nothing, Plan
  <2>5. DOMAIN p.marks = {}
    BY <2>4
  <2> QED
    BY <2>2, <2>4, <2>5 DEF Decision, WriteOK, MarksOK
<1>2. CASE LinkOf(ticket, article) = {}
  BY <1>2, RaiseIsDecision DEF unlink_article, Error
<1> QED
  BY <1>1, <1>2

\* The link that was found is the only one of its ticket and article.
LEMMA ResolutionIsDecision ==
    ASSUME IInv, NEW ticket \in Ticket, NEW article, NEW is_resolution \in BOOLEAN
    PROVE  Decision(set_resolution(ticket, article, is_resolution))
<1> DEFINE found == LinkOf(ticket, article)
           p == set_resolution(ticket, article, is_resolution)
           op == IF is_resolution THEN "mark" ELSE "unmark"
<1>1. CASE found = {} \/ (is_resolution /\ ticket \notin resolved)
  BY <1>1, RaiseIsDecision DEF set_resolution, Error
<1>2. CASE ~(found = {} \/ (is_resolution /\ ticket \notin resolved))
  <2>1. PICK link : link = CHOOSE l \in found : TRUE
    OBVIOUS
  <2>2. PICK marks : marks = [id \in {l.id : l \in {k \in found : k.solution # is_resolution}}
                                |-> is_resolution]
    OBVIOUS
  <2>3. p = [[[[Nothing EXCEPT !.op = op] EXCEPT !.id = link.id] EXCEPT !.row = link]
               EXCEPT !.marks = marks]
    BY <1>2, <2>1, <2>2 DEF set_resolution
  <2>4. link \in found
    BY <1>2, <2>1
  <2>5. link \in links /\ link.ticket = ticket /\ \A l \in found : l = link
    BY <2>4 DEF LinkOf, LinksOf, IInv, LinkKeys
  <2>6. DOMAIN marks \subseteq {link.id} /\ \A id \in DOMAIN marks : marks[id] = is_resolution
    BY <2>2, <2>5
  <2>7. /\ link.id \in 1..lastLink /\ link.ticket \in Ticket
        /\ \A l \in links : l.id = link.id => l.ticket = link.ticket
    BY <2>5 DEF IInv, DataType, LinkKeys
  <2> HIDE DEF p, op, found
  <2>8. Plan(p) /\ p.op = op /\ p.id = link.id /\ p.row = link /\ p.marks = marks
    BY <2>3 DEF Nothing, Plan
  <2>9. op \in {"mark", "unmark"} /\ (is_resolution <=> op = "mark")
    BY DEF op
  <2>10. MarksOK(p)
    BY <2>6, <2>7, <2>8, <2>9 DEF MarksOK
  <2>11. p.op = "mark" => MarkOK(p)
    BY <2>6, <2>8, <2>10 DEF MarkOK
  <2>12. p.op # "mark" => WriteOK(p, FALSE)
    BY <2>8, <2>9, <2>10 DEF WriteOK
  <2> QED
    BY <2>8, <2>11, <2>12 DEF Decision, p
<1> QED
  BY <1>1, <1>2

--------------------------------------------------------------------------
(* Requests and answers *)

\* An answered request forgets its plan and keeps what it has shown.
LEMMA DoneParts ==
    ASSUME NEW c, Request(c), NEW status, NEW b, b = Done(c, status)
    PROVE  /\ Request(b) /\ b.at = "idle" /\ b.actor = c.actor /\ b.plan = Nothing
           /\ b.shown = c.shown /\ b.seen = c.seen
<1>1. PICK c1 : c1 = [c EXCEPT !.at = "idle"]
  OBVIOUS
<1>2. Request(c1) /\ c1.at = "idle" /\ c1.actor = c.actor /\ c1.shown = c.shown /\ c1.seen = c.seen
  BY <1>1 DEF Request
<1>3. PICK c2 : c2 = [c1 EXCEPT !.status = status]
  OBVIOUS
<1>4. Request(c2) /\ c2.at = "idle" /\ c2.actor = c.actor /\ c2.shown = c.shown /\ c2.seen = c.seen
  BY <1>2, <1>3 DEF Request
<1>5. PICK c3 : c3 = [c2 EXCEPT !.plan = Nothing]
  OBVIOUS
<1>6. /\ Request(c3) /\ c3.at = "idle" /\ c3.actor = c.actor /\ c3.plan = Nothing
      /\ c3.shown = c.shown /\ c3.seen = c.seen
  BY <1>4, <1>5 DEF Request
<1>7. PICK c4 : c4 = [c3 EXCEPT !.found = {}]
  OBVIOUS
<1>8. /\ Request(c4) /\ c4.at = "idle" /\ c4.actor = c.actor /\ c4.plan = Nothing
      /\ c4.shown = c.shown /\ c4.seen = c.seen
  BY <1>6, <1>7 DEF Request
<1>9. b = [c4 EXCEPT !.overtaken = FALSE]
  BY <1>1, <1>3, <1>5, <1>7 DEF Done
<1> QED
  BY <1>8, <1>9 DEF Request

LEMMA DoneOK ==
    ASSUME NEW c, CallOK(c), NEW status
    PROVE  CallOK(Done(c, status))
<1>1. PICK b : b = Done(c, status)
  OBVIOUS
<1>2. Request(c)
  BY DEF CallOK
<1> QED
  BY <1>1, <1>2, DoneParts, IdleParts DEF CallOK, Place, Reads

\* The answer of a reading route, or its first statement.
LEMMA AnswerParts ==
    ASSUME NEW actor, NEW status, NEW shown, NEW b, b = Answer(actor, status, shown)
    PROVE  /\ Request(b) /\ b.at = "idle" /\ b.actor = actor /\ b.plan = Nothing
           /\ b.shown = shown /\ b.seen = Published
<1>1. PICK c1 : c1 = [Idle EXCEPT !.actor = actor]
  OBVIOUS
<1>2. Request(c1) /\ c1.at = "idle" /\ c1.actor = actor /\ c1.plan = Nothing
  BY <1>1, IdleParts DEF Request
<1>3. PICK c2 : c2 = [c1 EXCEPT !.status = status]
  OBVIOUS
<1>4. Request(c2) /\ c2.at = "idle" /\ c2.actor = actor /\ c2.plan = Nothing
  BY <1>2, <1>3 DEF Request
<1>5. PICK c3 : c3 = [c2 EXCEPT !.shown = shown]
  OBVIOUS
<1>6. /\ Request(c3) /\ c3.at = "idle" /\ c3.actor = actor /\ c3.plan = Nothing
      /\ c3.shown = shown
  BY <1>4, <1>5 DEF Request
<1>7. b = [c3 EXCEPT !.seen = Published]
  BY <1>1, <1>3, <1>5 DEF Answer
<1> QED
  BY <1>6, <1>7 DEF Request

LEMMA AnswerOK ==
    ASSUME NEW actor, NEW status, NEW shown, actor # "staff" => shown \subseteq Published
    PROVE  CallOK(Answer(actor, status, shown))
<1>1. PICK b : b = Answer(actor, status, shown)
  OBVIOUS
<1> QED
  BY <1>1, AnswerParts, IdleParts DEF CallOK, Place, Reads

LEMMA ReadingOK ==
    ASSUME NEW actor, NEW at \in Reads, NEW found,
           at = "searched" /\ actor # "staff" => found \subseteq Published
    PROVE  CallOK(Reading(actor, at, found))
<1>1. PICK a : a = Answer(actor, 200, {})
  OBVIOUS
<1>2. /\ Request(a) /\ a.actor = actor /\ a.plan = Nothing
      /\ a.shown = {} /\ a.seen = Published
  BY <1>1, AnswerParts
<1>3. PICK c : c = [a EXCEPT !.at = at]
  OBVIOUS
<1>4. /\ Request(c) /\ c.at = at /\ c.actor = actor /\ c.plan = Nothing
      /\ c.shown = {} /\ c.seen = Published
  BY <1>2, <1>3 DEF Request
<1>5. PICK b : b = [c EXCEPT !.found = found]
  OBVIOUS
<1>6. /\ Request(b) /\ b.at = at /\ b.actor = actor /\ b.plan = Nothing
      /\ b.shown = {} /\ b.seen = Published /\ b.found = found
  BY <1>4, <1>5 DEF Request
<1>7. Reading(actor, at, found) = b
  BY <1>1, <1>3, <1>5 DEF Reading
<1> QED
  BY <1>6, <1>7, IdleParts DEF CallOK, Place, Reads

\* A reading route ends, or goes on to its second statement.
LEMMA ReceiveKeeps ==
    ASSUME IInv, NEW s \in Session, NEW c, CallOK(c), Receive(s), call' = [call EXCEPT ![s] = c]
    PROVE  IInv'
BY OneCall DEF Receive, tables, IInv, DataType

\* A writing route leaves the decision of its service or an answer.
LEMMA ServeKeeps ==
    ASSUME IInv, NEW s \in Session, NEW plan, NEW caught, NEW success,
           Decision(plan), Serve(s, plan, caught, success)
    PROVE  IInv'
<1>1. PICK actor \in Actor : call' = [call EXCEPT ![s] =
       IF actor # "staff" THEN [Idle EXCEPT !.actor = actor, !.status = 403]
       ELSE IF plan.error # None THEN [Idle EXCEPT !.status = caught[plan.error]]
       ELSE [Idle EXCEPT !.at = IF plan.op = "mark" THEN "found" ELSE "checked",
                         !.plan = plan, !.status = success]]
  BY DEF Serve
<1>2. Receive(s)
  BY DEF Serve
<1>3. CASE actor # "staff"
  <2>1. PICK a : a = [Idle EXCEPT !.actor = actor]
    OBVIOUS
  <2>2. Request(a) /\ a.at = "idle" /\ a.plan = Nothing /\ a.shown = {}
    BY <2>1, IdleParts DEF Request
  <2>3. PICK b : b = [a EXCEPT !.status = 403]
    OBVIOUS
  <2>4. Request(b) /\ b.at = "idle" /\ b.plan = Nothing /\ b.shown = {}
    BY <2>2, <2>3 DEF Request
  <2>5. CallOK(b)
    BY <2>4, IdleParts DEF CallOK, Place, Reads
  <2>6. call' = [call EXCEPT ![s] = b]
    BY <1>1, <1>3, <2>1, <2>3
  <2> QED
    BY <1>2, <2>5, <2>6, ReceiveKeeps
<1>4. CASE actor = "staff" /\ plan.error # None
  <2>1. PICK b : b = [Idle EXCEPT !.status = caught[plan.error]]
    OBVIOUS
  <2>2. Request(b) /\ b.at = "idle" /\ b.plan = Nothing /\ b.shown = {}
    BY <2>1, IdleParts DEF Request
  <2>3. CallOK(b)
    BY <2>2, IdleParts DEF CallOK, Place, Reads
  <2>4. call' = [call EXCEPT ![s] = b]
    BY <1>1, <1>4, <2>1
  <2> QED
    BY <1>2, <2>3, <2>4, ReceiveKeeps
<1>5. CASE actor = "staff" /\ plan.error = None
  <2>1. PICK at : at = IF plan.op = "mark" THEN "found" ELSE "checked"
    OBVIOUS
  <2>2. PICK a : a = [Idle EXCEPT !.at = at]
    OBVIOUS
  <2>3. Request(a) /\ a.at = at /\ a.shown = {} /\ a.overtaken = FALSE
    BY <2>2, IdleParts DEF Request
  <2>4. PICK d : d = [a EXCEPT !.plan = plan]
    OBVIOUS
  <2>5. Request(d) /\ d.at = at /\ d.plan = plan /\ d.shown = {} /\ d.overtaken = FALSE
    BY <2>3, <2>4 DEF Request
  <2>6. PICK b : b = [d EXCEPT !.status = success]
    OBVIOUS
  <2>7. Request(b) /\ b.at = at /\ b.plan = plan /\ b.shown = {} /\ b.overtaken = FALSE
    BY <2>5, <2>6 DEF Request
  <2>8. CallOK(b)
    BY <1>5, <2>1, <2>7 DEF CallOK, Decision, Place, Reads
  <2>9. call' = [call EXCEPT ![s] = b]
    BY <1>1, <1>5, <2>1, <2>2, <2>4, <2>6
  <2> QED
    BY <1>2, <2>8, <2>9, ReceiveKeeps
<1> QED
  BY <1>3, <1>4, <1>5

--------------------------------------------------------------------------
(* The routes *)

LEMMA WriteRoutesKeep ==
    ASSUME IInv, NEW s \in Session,
           \/ add_article(s) \/ edit_article(s) \/ add_ticket_article(s)
           \/ edit_ticket_article(s) \/ remove_ticket_article(s)
    PROVE  IInv'
<1>1. CASE add_article(s)
  BY <1>1, ServeKeeps, CreateIsDecision DEF add_article
<1>2. CASE edit_article(s)
  BY <1>2, ServeKeeps, EditIsDecision DEF edit_article
<1>3. CASE add_ticket_article(s)
  BY <1>3, ServeKeeps, LinkIsDecision DEF add_ticket_article
<1>4. CASE edit_ticket_article(s)
  BY <1>4, ServeKeeps, ResolutionIsDecision DEF edit_ticket_article
<1>5. CASE remove_ticket_article(s)
  BY <1>5, ServeKeeps, UnlinkIsDecision DEF remove_ticket_article
<1> QED
  BY <1>1, <1>2, <1>3, <1>4, <1>5

\* Whatever a requester is shown at once has been looked for among the published articles.
LEMMA ReadRoutesKeep ==
    ASSUME IInv, NEW s \in Session,
           \/ get_articles(s) \/ read_article(s) \/ search_knowledge_base(s)
           \/ read_ticket_articles(s) \/ read_article_suggestions(s)
    PROVE  IInv'
<1>1. \A actor : actor # "staff" => Visible(actor) = Published
  BY DEF Visible
<1>2. CASE get_articles(s)
  <2>1. PICK actor \in Actor, category \in Category \cup {None} :
          call' = [call EXCEPT ![s] = Answer(actor, 200,
            {a \in Visible(actor) : category \in {None, articles[a].category}})]
    BY <1>2 DEF get_articles
  <2> DEFINE shown == {a \in Visible(actor) : category \in {None, articles[a].category}}
  <2>2. actor # "staff" => shown \subseteq Published
    BY <1>1
  <2> HIDE DEF shown
  <2>3. CallOK(Answer(actor, 200, shown))
    BY <2>2, AnswerOK
  <2> QED
    BY <1>2, <2>1, <2>3, ReceiveKeeps DEF get_articles, shown
<1>3. CASE read_article(s)
  <2>1. PICK actor \in Actor, id \in Ids \cup {0} :
          call' = [call EXCEPT ![s] =
            IF id \in Visible(actor) THEN Answer(actor, 200, {id}) ELSE Answer(actor, 404, {})]
    BY <1>3 DEF read_article
  <2>2. CallOK(Answer(actor, 404, {})) /\ (id \in Visible(actor) => CallOK(Answer(actor, 200, {id})))
    BY <1>1, AnswerOK
  <2> QED
    BY <1>3, <2>1, <2>2, ReceiveKeeps DEF read_article
<1>4. CASE search_knowledge_base(s)
  <2>1. PICK actor \in Actor : \E found \in search_articles(actor) :
          call' = [call EXCEPT ![s] = Reading(actor, "searched", found)]
    BY <1>4 DEF search_knowledge_base
  <2>2. \A found \in search_articles(actor) : CallOK(Reading(actor, "searched", found))
    BY <1>1, <2>1, ReadingOK DEF search_articles, Reads
  <2> QED
    BY <1>4, <2>1, <2>2, ReceiveKeeps DEF search_knowledge_base
<1>5. CASE read_ticket_articles(s)
  <2>1. PICK actor \in Actor, ticket \in Ticket \cup {0} :
          LET linked == {l.article : l \in LinksOf(ticket)}
          IN call' = [call EXCEPT ![s] =
               IF Missing(ticket, actor) THEN Answer(actor, 404, {})
               ELSE IF actor = "staff" THEN Answer(actor, 200, linked)
               ELSE Reading(actor, "listed", linked)]
    BY <1>5 DEF read_ticket_articles
  <2> DEFINE linked == {l.article : l \in LinksOf(ticket)}
  <2> HIDE DEF linked
  <2>2. /\ CallOK(Answer(actor, 404, {})) /\ CallOK(Reading(actor, "listed", linked))
        /\ actor = "staff" => CallOK(Answer(actor, 200, linked))
    BY AnswerOK, ReadingOK DEF Reads
  <2>3. \E c \in {Answer(actor, 404, {}), Answer(actor, 200, linked), Reading(actor, "listed", linked)} :
          CallOK(c) /\ call' = [call EXCEPT ![s] = c]
    BY <2>1, <2>2 DEF linked
  <2> QED
    BY <1>5, <2>3, ReceiveKeeps DEF read_ticket_articles
<1>6. CASE read_article_suggestions(s)
  <2>1. PICK actor \in Actor, ticket \in Ticket \cup {0} :
          IF Missing(ticket, actor)
          THEN call' = [call EXCEPT ![s] = Answer(actor, 404, {})]
          ELSE \E ranked \in SUBSET Suggestible(CategoryOf[ticket]) :
                 call' = [call EXCEPT ![s] =
                   IF ranked # {} THEN Answer(actor, 200, ranked)
                   ELSE Reading(actor, "unmatched", {CategoryOf[ticket]})]
    BY <1>6 DEF read_article_suggestions
  <2>2. /\ CallOK(Answer(actor, 404, {})) /\ CallOK(Reading(actor, "unmatched", {CategoryOf[ticket]}))
        /\ \A ranked \in SUBSET Suggestible(CategoryOf[ticket]) : CallOK(Answer(actor, 200, ranked))
    BY AnswerOK, ReadingOK DEF Reads, Suggestible
  <2>3. \E c : CallOK(c) /\ call' = [call EXCEPT ![s] = c]
    BY <2>1, <2>2
  <2> QED
    BY <1>6, <2>3, ReceiveKeeps DEF read_article_suggestions
<1> QED
  BY <1>2, <1>3, <1>4, <1>5, <1>6

LEMMA CallParts ==
    ASSUME IInv, NEW s \in Session
    PROVE  CallOK(call[s]) /\ Request(call[s]) /\ Plan(call[s].plan)
BY DEF IInv, CallInv, CallOK

LEMMA ReadOnKeeps ==
    ASSUME IInv, NEW s \in Session, ReadOn(s)
    PROVE  IInv'
<1>1. PICK c : c = call[s]
  OBVIOUS
<1>2. CallOK(c) /\ Request(c) /\ c.at \in Reads
  BY <1>1, CallParts DEF ReadOn, Reads
<1>3. c.actor # "staff" => Found(c) \subseteq c.seen
  BY <1>2 DEF CallOK, Found, Suggestible, Reads
<1>4. PICK d : d = Done(c, 200)
  OBVIOUS
<1>5. /\ Request(d) /\ d.at = "idle" /\ d.actor = c.actor /\ d.plan = Nothing /\ d.seen = c.seen
  BY <1>2, <1>4, DoneParts
<1>6. PICK b : b = [d EXCEPT !.shown = Found(c)]
  OBVIOUS
<1>7. /\ Request(b) /\ b.at = "idle" /\ b.actor = c.actor /\ b.plan = Nothing
      /\ b.seen = c.seen /\ b.shown = Found(c)
  BY <1>5, <1>6 DEF Request
<1>8. CallOK(b)
  BY <1>3, <1>7, IdleParts DEF CallOK, Place, Reads
<1>9. call' = [call EXCEPT ![s] = b]
  BY <1>1, <1>4, <1>6 DEF ReadOn, IInv, CallInv
<1> QED
  BY <1>8, <1>9, OneCall DEF ReadOn, tables, IInv, DataType

\* The second read of set_resolution takes up what the first could not know.
LEMMA UnmarkOthersKeeps ==
    ASSUME IInv, NEW s \in Session, UnmarkOthers(s)
    PROVE  IInv'
<1> DEFINE plan == call[s].plan
           others == {l.id : l \in {k \in LinksOf(plan.row.ticket) : k.solution /\ k.id # plan.id}}
           marks == [id \in DOMAIN plan.marks \cup others |-> id \notin others]
<1>1. PICK c : c = call[s]
  OBVIOUS
<1>2. CallOK(c) /\ Request(c) /\ Plan(plan) /\ c.plan = plan /\ MarkOK(plan) /\ c.at = "found"
  BY <1>1, CallParts DEF UnmarkOthers, CallOK
<1>3. PICK a : a = [c EXCEPT !.at = "checked"]
  OBVIOUS
<1> HIDE DEF plan
<1>4. /\ Request(a) /\ a.at = "checked" /\ a.plan = plan /\ a.actor = c.actor
      /\ a.shown = c.shown /\ a.seen = c.seen
  BY <1>2, <1>3 DEF Request
<1>5. PICK p : p = [plan EXCEPT !.marks = marks]
  OBVIOUS
<1>6. Plan(p) /\ p.op = plan.op /\ p.id = plan.id /\ p.row = plan.row /\ p.marks = marks
  BY <1>2, <1>5 DEF Plan
<1>7. PICK b : b = [a EXCEPT !.plan = p]
  OBVIOUS
<1>8. /\ Request(b) /\ b.at = "checked" /\ b.plan = p /\ b.actor = c.actor
      /\ b.shown = c.shown /\ b.seen = c.seen
  BY <1>4, <1>7 DEF Request
<1>9. MarksOK(p) /\ ClearsOthers(p)
  <2>1. DOMAIN marks = DOMAIN plan.marks \cup others /\ plan.id \notin others
    OBVIOUS
  <2>2. \A id \in DOMAIN marks : marks[id] = (id \notin others)
    OBVIOUS
  <2>3. \A l \in links : l.ticket = plan.row.ticket /\ l.solution /\ l.id # plan.id => l.id \in others
    BY DEF LinksOf
  <2>4. DOMAIN plan.marks \subseteq {plan.id} /\ MarksOK(plan) /\ plan.op = "mark"
    BY <1>2 DEF MarkOK
  <2> HIDE DEF marks, others
  <2>5. \A id \in DOMAIN marks : marks[id] \in BOOLEAN /\ (marks[id] => id = plan.id)
    BY <2>1, <2>2, <2>4
  <2>6. MarksOK(p)
    BY <1>6, <2>4, <2>5 DEF MarksOK
  <2>7. ClearsOthers(p)
    BY <1>6, <2>1, <2>2, <2>3 DEF ClearsOthers
  <2> QED
    BY <2>6, <2>7
<1>10. WriteOK(p, b.overtaken)
  BY <1>2, <1>6, <1>9 DEF WriteOK, MarkOK
<1>11. CallOK(b)
  BY <1>2, <1>6, <1>8, <1>10 DEF CallOK, Place, Reads
<1>12. call' = [call EXCEPT ![s] = b]
  BY <1>1, <1>2, <1>3, <1>4, <1>5, <1>7 DEF UnmarkOthers, IInv, CallInv, plan
<1> QED
  BY <1>11, <1>12, OneCall DEF UnmarkOthers, tables, IInv, DataType

LEMMA ServerErrorKeeps ==
    ASSUME IInv, NEW s \in Session, ServerError(s)
    PROVE  IInv'
BY CallParts, DoneOK, OneCall DEF ServerError, tables, IInv, DataType

LEMMA RefreshKeeps ==
    ASSUME IInv, NEW s \in Session, Refresh(s)
    PROVE  IInv'
<1> DEFINE status == IF call[s].plan.id \in LinkIds THEN call[s].status ELSE 500
<1>1. call' = [call EXCEPT ![s] = Done(call[s], status)]
  BY DEF Refresh
<1> HIDE DEF status
<1>2. CallOK(Done(call[s], status))
  BY CallParts, DoneOK
<1> QED
  BY <1>1, <1>2, OneCall DEF Refresh, tables, IInv, DataType

--------------------------------------------------------------------------
(* What others do *)

LEMMA ResolveKeeps ==
    ASSUME IInv, NEW ticket \in Ticket, ResolveTicket(ticket)
    PROVE  IInv'
<1>1. UNCHANGED tables /\ call' = call /\ resolved' \subseteq Ticket
  BY DEF ResolveTicket, tables, IInv, DataType
<1>2. CallInv'
  BY <1>1, SameTables DEF IInv, CallInv, CallOK
<1> QED
  BY <1>1, <1>2 DEF IInv, DataType, LinkKeys, OneMarked, SubcategoryFits, Ids, tables

\* A subcategory moves: the articles that have it are excused, the writers of articles late.
LEMMA MoveKeeps ==
    ASSUME IInv, NEW sub \in Subcategory, NEW category \in Category,
           update_subcategory(sub, category)
    PROVE  IInv'
<1>1. /\ parent' = [parent EXCEPT ![sub] = category]
      /\ excused' = excused \cup {a \in Ids : articles[a].sub = sub}
      /\ UNCHANGED <<articles, links, lastLink, resolved, raced>>
  BY DEF update_subcategory
<1>2. DataType' /\ LinkKeys' /\ OneMarked'
  BY <1>1 DEF IInv, DataType, LinkKeys, OneMarked, Ids
<1>3. SubcategoryFits'
  BY <1>1 DEF IInv, DataType, SubcategoryFits, Ids
<1>4. DOMAIN call' = Session
  BY DEF update_subcategory
<1>5. ASSUME NEW t \in Session PROVE CallOK(call[t])'
  <2>1. PICK c : c = call[t]
    OBVIOUS
  <2>2. CallOK(c) /\ Request(c)
    BY <2>1, CallParts
  <2> DEFINE late == c.overtaken \/ c.plan.op \in {"create", "edit"}
  <2>3. call'[t] = [c EXCEPT !.overtaken = late]
    BY <2>1 DEF update_subcategory
  <2>4. PICK b : b = [c EXCEPT !.overtaken = late]
    OBVIOUS
  <2>5. c.plan.op \in {"create", "edit"} => late
    OBVIOUS
  <2>6. ~late => ~c.overtaken
    OBVIOUS
  <2> HIDE DEF late
  <2>7. /\ Request(b) /\ b.at = c.at /\ b.actor = c.actor /\ b.plan = c.plan /\ b.found = c.found
        /\ b.shown = c.shown /\ b.seen = c.seen /\ b.overtaken = late
    BY <2>2, <2>4 DEF Request
  <2>8. Published' = Published
    BY <1>1 DEF Published, Ids
  <2>9. /\ MarksOK(c.plan)' <=> MarksOK(c.plan)
        /\ ClearsOthers(c.plan)' <=> ClearsOthers(c.plan)
    BY <1>1 DEF MarksOK, ClearsOthers
  <2>10. PICK over : over = late
    OBVIOUS
  <2>13. WriteOK(c.plan, c.overtaken) => WriteOK(c.plan, over)'
    BY <1>1, <2>5, <2>6, <2>9, <2>10 DEF WriteOK
  <2>11. MarkOK(c.plan) => MarkOK(c.plan)'
    BY <2>9 DEF MarkOK
  <2>12. CallOK(b)'
    BY <2>2, <2>7, <2>8, <2>10, <2>11, <2>13 DEF CallOK
  <2> QED
    BY <2>3, <2>4, <2>12 DEF CallOK
<1> QED
  BY <1>2, <1>3, <1>4, <1>5 DEF IInv, CallInv

--------------------------------------------------------------------------
(* The commit *)

LEMMA EditedFacts ==
    ASSUME NEW row \in RowType, NEW change, ChangeType(change)
    PROVE  /\ [c \in DOMAIN row |-> IF c \in DOMAIN change THEN change[c] ELSE row[c]]
                = Edited(row, change)
           /\ Edited(row, change) \in RowType
<1>1. DOMAIN row = {"status", "category", "sub"}
  BY DEF RowType
<1>2. Edited(row, change) \in RowType
  BY DEF RowType, Edited, ChangeType
<1>3. PICK e : e = Edited(row, change)
  OBVIOUS
<1>4. /\ e = [c \in {"status", "category", "sub"} |-> e[c]]
      /\ \A c \in {"status", "category", "sub"} :
           e[c] = IF c \in DOMAIN change THEN change[c] ELSE row[c]
  BY <1>3 DEF Edited
<1>5. [c \in DOMAIN row |-> IF c \in DOMAIN change THEN change[c] ELSE row[c]] = e
  BY <1>1, <1>4
<1> QED
  BY <1>2, <1>3, <1>5

\* The table of articles after a commit: what is not the row of an edit stays as it was.
LEMMA CommitArticles ==
    ASSUME IInv, NEW s \in Session, Commit(s), NEW plan, plan = call[s].plan
    PROVE  /\ articles' \in Seq(RowType) /\ Len(articles) <= Len(articles')
           /\ \A a \in 1..Len(articles) :
                articles'[a] = IF plan.op = "edit" /\ a = plan.id
                               THEN Edited(articles[a], plan.change) ELSE articles[a]
           /\ excused \subseteq excused' /\ excused' \subseteq 1..Len(articles')
           /\ SubcategoryFits'
<1>1. /\ WriteOK(plan, call[s].overtaken) /\ articles \in Seq(RowType) /\ Len(articles) \in Nat
      /\ excused \subseteq 1..Len(articles)
  BY DEF IInv, DataType, CallInv, CallOK, Commit
<1>2. /\ articles' = ArticlesAfter(plan) /\ parent' = parent
      /\ excused' = IF plan.op \in {"create", "edit"} /\ call[s].overtaken
                    THEN excused \cup {IF plan.op = "create" THEN Len(articles) + 1 ELSE plan.id}
                    ELSE excused
  BY DEF Commit
<1>3. \A a \in 1..Len(articles) : a \notin excused => Fits(articles[a])
  BY DEF IInv, SubcategoryFits, Fits, Ids
<1>4. SubcategoryFits' <=> \A a \in 1..Len(articles') : a \notin excused' => Fits(articles'[a])
  BY <1>2 DEF SubcategoryFits, Fits, Ids
<1>5. CASE plan.op = "create"
  <2>1. articles' = Append(articles, plan.row) /\ plan.row \in RowType
    BY <1>1, <1>2, <1>5 DEF ArticlesAfter, WriteOK
  <2>2. /\ articles' \in Seq(RowType) /\ Len(articles') = Len(articles) + 1
        /\ \A a \in 1..Len(articles) : articles'[a] = articles[a]
        /\ articles'[Len(articles) + 1] = plan.row
    BY <1>1, <2>1
  <2>3. Len(articles) + 1 \notin excused' => Fits(plan.row)
    BY <1>1, <1>2, <1>5 DEF WriteOK
  <2>4. SubcategoryFits'
    BY <1>1, <1>2, <1>3, <1>4, <2>2, <2>3
  <2>5. excused \subseteq excused' /\ excused' \subseteq 1..Len(articles')
    <3>1. excused' = excused \/ excused' = excused \cup {Len(articles) + 1}
      BY <1>2, <1>5
    <3>2. 1..Len(articles') = 1..Len(articles) \cup {Len(articles) + 1}
      BY <1>1, <2>2
    <3> QED
      BY <1>1, <3>1, <3>2
  <2>6. Len(articles) <= Len(articles')
    BY <1>1, <2>2
  <2> QED
    BY <1>5, <2>2, <2>4, <2>5, <2>6
<1>6. CASE plan.op = "edit"
  <2> DEFINE row == articles[plan.id]
  <2>1. plan.id \in 1..Len(articles) /\ ChangeType(plan.change) /\ row \in RowType
    BY <1>1, <1>6 DEF WriteOK
  <2>2. articles' = [articles EXCEPT ![plan.id] = Edited(row, plan.change)]
    BY <1>2, <1>6, <2>1, EditedFacts DEF ArticlesAfter
  <2>3. Edited(row, plan.change) \in RowType
    BY <2>1, EditedFacts
  <2>4. /\ articles' \in Seq(RowType) /\ Len(articles') = Len(articles)
        /\ \A a \in 1..Len(articles) : a # plan.id => articles'[a] = articles[a]
        /\ articles'[plan.id] = Edited(row, plan.change)
    BY <1>1, <2>1, <2>2, <2>3
  <2>5. plan.id \notin excused' => Fits(Edited(row, plan.change))
    BY <1>1, <1>2, <1>6 DEF WriteOK
  <2>6. SubcategoryFits'
    BY <1>2, <1>3, <1>4, <2>4, <2>5
  <2>7. excused \subseteq excused' /\ excused' \subseteq 1..Len(articles')
    <3>1. excused' = excused \/ excused' = excused \cup {plan.id}
      BY <1>2, <1>6
    <3> QED
      BY <1>1, <2>1, <2>4, <3>1
  <2>8. Len(articles) <= Len(articles')
    BY <1>1, <2>4
  <2>9. \A a \in 1..Len(articles) :
          articles'[a] = IF plan.op = "edit" /\ a = plan.id
                         THEN Edited(articles[a], plan.change) ELSE articles[a]
    BY <1>6, <2>4
  <2>10. articles' \in Seq(RowType)
    BY <2>4
  <2> HIDE DEF row
  <2> QED
    BY <2>6, <2>7, <2>8, <2>9, <2>10
<1>7. CASE plan.op \notin {"create", "edit"}
  <2>1. articles' = articles /\ excused' = excused
    BY <1>2, <1>7 DEF ArticlesAfter
  <2>2. SubcategoryFits'
    BY <1>3, <1>4, <2>1
  <2> QED
    BY <1>1, <1>7, <2>1, <2>2
<1> QED
  BY <1>5, <1>6, <1>7

\* The table of links: a link keeps its columns but the mark, and gets marked only by
\* the mark of its own; a new one is new in its id and in its pair.
LEMMA CommitLinks ==
    ASSUME IInv, NEW s \in Session, Commit(s), NEW plan, plan = call[s].plan
    PROVE  /\ lastLink' \in Nat /\ lastLink <= lastLink'
           /\ links' \subseteq [id : 1..lastLink', ticket : Ticket, article : 1..Len(articles'),
                                solution : BOOLEAN]
           /\ LinkKeys'
           /\ \A l \in links' :
                \/ \E k \in links :
                     /\ l.id = k.id /\ l.ticket = k.ticket
                     /\ l.solution = IF plan.op \in {"mark", "unmark"} /\ k.id \in DOMAIN plan.marks
                                     THEN plan.marks[k.id] ELSE k.solution
                \/ l.id = lastLink + 1 /\ ~l.solution
<1> DEFINE New == [id |-> lastLink + 1, ticket |-> plan.row.ticket,
                   article |-> plan.row.article, solution |-> plan.row.solution]
           Kept(k) == [k EXCEPT !.solution = IF k.id \in DOMAIN plan.marks
                                             THEN plan.marks[k.id] ELSE @]
<1>1. /\ WriteOK(plan, call[s].overtaken) /\ ~Refused(plan)
      /\ links \subseteq [id : 1..lastLink, ticket : Ticket, article : 1..Len(articles),
                          solution : BOOLEAN]
      /\ Len(articles) \in Nat /\ lastLink \in Nat /\ LinkKeys
  BY DEF IInv, DataType, CallInv, CallOK, Commit
<1>2. /\ links' = LinksAfter(plan)
      /\ lastLink' = IF plan.op = "link" THEN lastLink + 1 ELSE lastLink
  BY DEF Commit
<1>3. Len(articles) <= Len(articles') /\ Len(articles') \in Nat
  BY CommitArticles
<1>4. CASE plan.op = "link"
  <2>1. links' = links \cup {New} /\ lastLink' = lastLink + 1
    BY <1>2, <1>4 DEF LinksAfter
  <2>2. plan.row \in [ticket : Ticket, article : 1..Len(articles), solution : {FALSE}]
    BY <1>1, <1>4 DEF WriteOK
  <2>3. /\ New.id = lastLink + 1 /\ New.ticket = plan.row.ticket
        /\ New.article = plan.row.article /\ ~New.solution
    BY <2>2
  <2>4. New \in [id : 1..lastLink', ticket : Ticket, article : 1..Len(articles'), solution : BOOLEAN]
    <3>1. /\ plan.row.ticket \in Ticket /\ plan.row.article \in 1..Len(articles)
          /\ plan.row.solution \in BOOLEAN
      BY <2>2
    <3>2. lastLink + 1 \in 1..lastLink'
      BY <1>1, <2>1
    <3>3. plan.row.article \in 1..Len(articles')
      BY <1>1, <1>3, <3>1
    <3> QED
      BY <3>1, <3>2, <3>3
  <2> HIDE DEF New
  <2>5. \A k \in links : k.ticket # plan.row.ticket \/ k.article # plan.row.article
    BY <1>1, <1>4 DEF Refused, LinkOf, LinksOf
  <2>6. \A k \in links : k.id # lastLink + 1
    BY <1>1
  <2>7. LinkKeys'
    BY <1>1, <2>1, <2>3, <2>5, <2>6 DEF LinkKeys
  <2>8. links' \subseteq [id : 1..lastLink', ticket : Ticket, article : 1..Len(articles'),
                         solution : BOOLEAN]
    BY <1>1, <1>3, <2>1, <2>4
  <2> QED
    BY <1>1, <1>4, <2>1, <2>3, <2>7, <2>8
<1>5. CASE plan.op = "unlink"
  <2>1. links' = {l \in links : l.id # plan.id} /\ lastLink' = lastLink
    BY <1>2, <1>5 DEF LinksAfter
  <2>2. LinkKeys'
    BY <1>1, <2>1 DEF LinkKeys
  <2> QED
    BY <1>1, <1>3, <1>5, <2>1, <2>2
<1>6. CASE plan.op \notin {"link", "unlink"}
  <2>1. links' = {Kept(k) : k \in links} /\ lastLink' = lastLink
    BY <1>2, <1>6 DEF LinksAfter
  <2>2. ASSUME NEW k \in links
        PROVE  /\ Kept(k).id = k.id /\ Kept(k).ticket = k.ticket /\ Kept(k).article = k.article
               /\ Kept(k).solution = IF k.id \in DOMAIN plan.marks
                                     THEN plan.marks[k.id] ELSE k.solution
               /\ Kept(k) = [id |-> k.id, ticket |-> k.ticket, article |-> k.article,
                             solution |-> Kept(k).solution]
    BY <1>1
  <2>3. \A id \in DOMAIN plan.marks : plan.marks[id] \in BOOLEAN
    BY <1>1 DEF WriteOK, MarksOK
  <2>4. \A k \in links : Kept(k).solution \in BOOLEAN
    BY <1>1, <2>2, <2>3
  <2>5. plan.op \notin {"mark", "unmark"} => DOMAIN plan.marks = {}
    BY <1>1 DEF WriteOK, MarksOK
  <2> HIDE DEF Kept
  <2>6. \A k \in links :
          Kept(k) \in [id : 1..lastLink', ticket : Ticket, article : 1..Len(articles'),
                       solution : BOOLEAN]
    BY <1>1, <1>3, <2>1, <2>2, <2>4
  <2>7. LinkKeys'
    BY <1>1, <2>1, <2>2 DEF LinkKeys
  <2> QED
    BY <1>1, <1>3, <1>6, <2>1, <2>2, <2>5, <2>6, <2>7
<1> QED
  BY <1>4, <1>5, <1>6

\* One link of a ticket is marked, unless the mark was overtaken: the marks it had read
\* are cleared with the same commit.
LEMMA CommitKeepsOneMarked ==
    ASSUME IInv, NEW s \in Session, Commit(s)
    PROVE  OneMarked'
<1>1. PICK plan : plan = call[s].plan
  OBVIOUS
<1>2. WriteOK(plan, call[s].overtaken) /\ MarksOK(plan)
  BY <1>1 DEF IInv, CallInv, CallOK, Commit, WriteOK
<1>3. raced' = IF plan.op # "mark" THEN raced
               ELSE IF call[s].overtaken THEN raced \cup {plan.row.ticket}
               ELSE raced \ {plan.row.ticket}
  BY <1>1 DEF Commit
<1>4. LinkKeys /\ LinkKeys' /\ OneMarked
  BY <1>1, CommitLinks DEF IInv
<1>5. ASSUME NEW l \in links', l.solution
      PROVE  \E k \in links :
               /\ l.id = k.id /\ l.ticket = k.ticket
               /\ \/ k.solution /\ ~(plan.op = "mark" /\ k.id \in DOMAIN plan.marks)
                  \/ plan.op = "mark" /\ k.id = plan.id
  <2>1. PICK k \in links :
          /\ l.id = k.id /\ l.ticket = k.ticket
          /\ l.solution = IF plan.op \in {"mark", "unmark"} /\ k.id \in DOMAIN plan.marks
                          THEN plan.marks[k.id] ELSE k.solution
    BY <1>1, <1>5, CommitLinks
  <2> QED
    BY <1>2, <1>5, <2>1 DEF MarksOK
<1>6. ASSUME NEW l \in links', NEW m \in links', l.solution, m.solution,
             l.ticket = m.ticket, l.ticket \notin raced'
      PROVE  l.id = m.id
  <2>1. PICK k \in links :
          /\ l.id = k.id /\ l.ticket = k.ticket
          /\ \/ k.solution /\ ~(plan.op = "mark" /\ k.id \in DOMAIN plan.marks)
             \/ plan.op = "mark" /\ k.id = plan.id
    BY <1>5, <1>6
  <2>2. PICK j \in links :
          /\ m.id = j.id /\ m.ticket = j.ticket
          /\ \/ j.solution /\ ~(plan.op = "mark" /\ j.id \in DOMAIN plan.marks)
             \/ plan.op = "mark" /\ j.id = plan.id
    BY <1>5, <1>6
  <2>3. CASE plan.op = "mark" /\ l.ticket = plan.row.ticket
    <3>1. ~call[s].overtaken
      BY <1>3, <1>6, <2>3
    <3>2. ClearsOthers(plan)
      BY <1>2, <2>3, <3>1 DEF WriteOK
    <3>3. k.id = plan.id /\ j.id = plan.id
      BY <1>6, <2>1, <2>2, <2>3, <3>2 DEF ClearsOthers
    <3> QED
      BY <2>1, <2>2, <3>3
  <2>4. CASE ~(plan.op = "mark" /\ l.ticket = plan.row.ticket)
    <3>1. l.ticket \notin raced
      BY <1>3, <1>6, <2>4
    <3>2. k.solution /\ j.solution
      BY <1>2, <1>6, <2>1, <2>2, <2>4 DEF MarksOK
    <3>3. k = j
      BY <1>4, <1>6, <2>1, <2>2, <3>1, <3>2 DEF OneMarked
    <3> QED
      BY <2>1, <2>2, <3>3
  <2> QED
    BY <2>3, <2>4
<1> QED
  BY <1>4, <1>6 DEF OneMarked, LinkKeys

\* What another request holds after the commit: its reasons, or the news that it is late.
LEMMA CommitKeepsOthers ==
    ASSUME IInv, NEW s \in Session, Commit(s), NEW plan, plan = call[s].plan,
           NEW c, CallOK(c), NEW b,
           b = Witness(c, plan, {a \in 1..Len(articles') : articles'[a].status = "published"})
    PROVE  CallOK(b)'
<1>1. Published' = {a \in 1..Len(articles') : articles'[a].status = "published"}
  BY DEF Published, Ids
<1>2. Request(c) /\ Plan(c.plan)
  BY DEF CallOK
<1>3. CASE c.at = "idle"
  BY <1>2, <1>3 DEF Witness, CallOK, Reads, Place
<1>4. CASE c.at # "idle"
  <2> DEFINE late == c.overtaken \/ Overtakes(plan, c.plan)
  <2>1. b = [[c EXCEPT !.overtaken = late] EXCEPT !.seen = c.seen \cup Published']
    <3>1. PICK d : d = [c EXCEPT !.overtaken = late]
      OBVIOUS
    <3>2. d.seen = c.seen
      BY <1>2, <3>1 DEF Request
    <3> QED
      BY <1>1, <1>4, <3>1, <3>2 DEF Witness
  <2>2. PICK over : over = late
    OBVIOUS
  <2>3. /\ ~over => ~c.overtaken
        /\ plan.op = "mark" /\ c.plan.op = "mark" /\ plan.row.ticket = c.plan.row.ticket => over
        /\ plan.op = "edit" /\ c.plan.op = "edit" /\ plan.id = c.plan.id => over
    BY <2>2 DEF Overtakes
  <2>4. PICK d : d = [c EXCEPT !.overtaken = over]
    OBVIOUS
  <2> HIDE DEF late
  <2>5. /\ Request(d) /\ d.at = c.at /\ d.actor = c.actor /\ d.plan = c.plan /\ d.found = c.found
        /\ d.shown = c.shown /\ d.seen = c.seen /\ d.overtaken = over
    BY <1>2, <2>4 DEF Request
  <2>6. b = [d EXCEPT !.seen = c.seen \cup Published']
    BY <2>1, <2>2, <2>4
  <2>7. /\ Request(b) /\ b.at = c.at /\ b.actor = c.actor /\ b.plan = c.plan /\ b.found = c.found
        /\ b.shown = c.shown /\ b.seen = c.seen \cup Published' /\ b.overtaken = over
    BY <2>5, <2>6 DEF Request
  <2>8. MarksOK(c.plan) => MarksOK(c.plan)'
    <3>1. SUFFICES ASSUME MarksOK(c.plan), c.plan.op = "mark"
                   PROVE  /\ c.plan.id \in 1..lastLink'
                          /\ \A l \in links' : l.id = c.plan.id => l.ticket = c.plan.row.ticket
      BY DEF MarksOK
    <3>2. /\ c.plan.id \in 1..lastLink
          /\ \A l \in links : l.id = c.plan.id => l.ticket = c.plan.row.ticket
      BY <3>1 DEF MarksOK
    <3>3. lastLink \in Nat /\ lastLink' \in Nat /\ lastLink <= lastLink'
      BY CommitLinks DEF IInv, DataType
    <3>4. \A l \in links' : l.id = lastLink + 1 \/ \E k \in links : l.id = k.id /\ l.ticket = k.ticket
      BY CommitLinks
    <3> QED
      BY <3>2, <3>3, <3>4
  <2>9. c.plan.op = "mark" /\ ~over /\ ClearsOthers(c.plan) => ClearsOthers(c.plan)'
    <3>1. SUFFICES ASSUME c.plan.op = "mark", ~over, ClearsOthers(c.plan), NEW l \in links',
                          l.ticket = c.plan.row.ticket, l.solution, l.id # c.plan.id
                   PROVE  l.id \in DOMAIN c.plan.marks /\ ~c.plan.marks[l.id]
      BY DEF ClearsOthers
    <3>2. PICK k \in links :
            /\ l.id = k.id /\ l.ticket = k.ticket
            /\ l.solution = IF plan.op \in {"mark", "unmark"} /\ k.id \in DOMAIN plan.marks
                            THEN plan.marks[k.id] ELSE k.solution
      BY <3>1, CommitLinks
    <3>3. MarksOK(plan)
      BY DEF IInv, CallInv, CallOK, Commit, WriteOK
    <3>4. k.solution
      <4>1. CASE plan.op # "mark"
        BY <3>1, <3>2, <3>3, <4>1 DEF MarksOK
      <4>2. CASE plan.op = "mark"
        <5>1. plan.row.ticket # c.plan.row.ticket
          BY <2>3, <3>1, <4>2
        <5>2. k.id # plan.id
          BY <3>1, <3>2, <3>3, <4>2, <5>1 DEF MarksOK
        <5> QED
          BY <3>1, <3>2, <3>3, <4>2, <5>2 DEF MarksOK
      <4> QED
        BY <4>1, <4>2
    <3> QED
      BY <3>1, <3>2, <3>4 DEF ClearsOthers
  <2>10. WriteOK(c.plan, c.overtaken) => WriteOK(c.plan, over)'
    <3>1. /\ Len(articles) \in Nat /\ Len(articles') \in Nat /\ Len(articles) <= Len(articles')
          /\ excused \subseteq excused'
          /\ \A a \in 1..Len(articles) :
               ~(plan.op = "edit" /\ a = plan.id) => articles'[a] = articles[a]
      BY CommitArticles DEF IInv, DataType
    <3>2. parent' = parent
      BY DEF Commit
    <3>9. 1..Len(articles) \subseteq 1..Len(articles')
      BY <3>1
    <3>3. SUFFICES ASSUME WriteOK(c.plan, c.overtaken) PROVE WriteOK(c.plan, over)'
      OBVIOUS
    <3>4. \A row : Fits(row)' <=> Fits(row)
      BY <3>2 DEF Fits
    <3>5. c.plan.op = "edit" /\ ~over /\ c.plan.id \notin excused' =>
            articles'[c.plan.id] = articles[c.plan.id]
      BY <2>3, <3>1, <3>3 DEF WriteOK
    <3>6. c.plan.op = "edit" =>
            /\ c.plan.id \in 1..Len(articles') /\ ChangeType(c.plan.change)
            /\ ~over /\ c.plan.id \notin excused' =>
                 Fits(Edited(articles[c.plan.id], c.plan.change))'
      <4>1. SUFFICES ASSUME c.plan.op = "edit"
                     PROVE  /\ c.plan.id \in 1..Len(articles') /\ ChangeType(c.plan.change)
                            /\ ~over /\ c.plan.id \notin excused' =>
                                 Fits(Edited(articles[c.plan.id], c.plan.change))'
        OBVIOUS
      <4>2. /\ c.plan.id \in 1..Len(articles) /\ ChangeType(c.plan.change)
            /\ ~c.overtaken /\ c.plan.id \notin excused =>
                 Fits(Edited(articles[c.plan.id], c.plan.change))
        BY <3>3, <4>1 DEF WriteOK
      <4>3. CASE ~over /\ c.plan.id \notin excused'
        <5>1. Fits(Edited(articles[c.plan.id], c.plan.change))
          BY <2>3, <3>1, <4>2, <4>3
        <5>2. articles'[c.plan.id] = articles[c.plan.id]
          BY <3>5, <4>1, <4>3
        <5>3. Fits(Edited(articles[c.plan.id], c.plan.change))'
          BY <3>2, <5>1, <5>2 DEF Fits
        <5> QED
          BY <3>9, <4>2, <5>3
      <4>4. CASE ~(~over /\ c.plan.id \notin excused')
        BY <3>9, <4>2, <4>4
      <4> QED
        BY <4>3, <4>4
    <3>7. c.plan.op = "link" =>
            c.plan.row \in [ticket : Ticket, article : 1..Len(articles'), solution : {FALSE}]
      <4>1. c.plan.op = "link" =>
              c.plan.row \in [ticket : Ticket, article : 1..Len(articles), solution : {FALSE}]
        BY <3>3 DEF WriteOK
      <4> QED
        BY <3>9, <4>1
    <3>8. c.plan.op = "create" => c.plan.row \in RowType /\ (~over => Fits(c.plan.row)')
      BY <2>3, <3>3, <3>4 DEF WriteOK
    <3> QED
      BY <2>3, <2>8, <2>9, <3>3, <3>6, <3>7, <3>8 DEF WriteOK
  <2>11. MarkOK(c.plan) => MarkOK(c.plan)'
    BY <2>8 DEF MarkOK
  <2> QED
    BY <2>7, <2>10, <2>11 DEF CallOK
<1> QED
  BY <1>3, <1>4

LEMMA CommitKeepsCalls ==
    ASSUME IInv, NEW s \in Session, Commit(s)
    PROVE  CallInv'
<1>1. PICK plan : plan = call[s].plan
  OBVIOUS
<1>2. PICK c : c = call[s]
  OBVIOUS
<1>3. CallOK(c) /\ Request(c) /\ c.plan = plan /\ Plan(plan)
  BY <1>1, <1>2, CallParts
<1>4. call' = [t \in Session |->
        IF t = s
        THEN IF plan.op \in {"link", "mark", "unmark"}
             THEN [call[s] EXCEPT !.at = "stored", !.overtaken = FALSE,
                                  !.plan.id = IF plan.op = "link" THEN lastLink' ELSE @]
             ELSE Done(call[s], call[s].status)
        ELSE Witness(call[t], plan, {a \in 1..Len(articles') : articles'[a].status = "published"})]
  BY <1>1 DEF Commit
<1>5. CallOK(call[s])'
  <2>1. CASE plan.op \in {"link", "mark", "unmark"}
    <3>1. PICK id : id = IF plan.op = "link" THEN lastLink' ELSE plan.id
      OBVIOUS
    <3>2. PICK a : a = [c EXCEPT !.at = "stored"]
      OBVIOUS
    <3>3. /\ Request(a) /\ a.at = "stored" /\ a.plan = plan /\ a.actor = c.actor
          /\ a.shown = c.shown /\ a.seen = c.seen
      BY <1>3, <3>2 DEF Request
    <3>4. PICK d : d = [a EXCEPT !.overtaken = FALSE]
      OBVIOUS
    <3>5. /\ Request(d) /\ d.at = "stored" /\ d.plan = plan /\ d.actor = c.actor
          /\ d.shown = c.shown /\ d.seen = c.seen
      BY <3>3, <3>4 DEF Request
    <3>6. PICK p : p = [plan EXCEPT !.id = id]
      OBVIOUS
    <3>7. Plan(p)
      BY <1>3, <3>6 DEF Plan
    <3>8. PICK b : b = [d EXCEPT !.plan = p]
      OBVIOUS
    <3>9. /\ Request(b) /\ b.at = "stored" /\ b.plan = p /\ b.actor = c.actor
          /\ b.shown = c.shown /\ b.seen = c.seen
      BY <3>5, <3>8 DEF Request
    <3>10. call'[s] = b
      BY <1>2, <1>3, <1>4, <2>1, <3>1, <3>2, <3>3, <3>4, <3>5, <3>6, <3>8
    <3>11. CallOK(b)'
      BY <1>3, <3>7, <3>9 DEF CallOK, Place, Reads
    <3> QED
      BY <3>10, <3>11 DEF CallOK
  <2>2. CASE plan.op \notin {"link", "mark", "unmark"}
    <3>1. PICK b : b = Done(c, c.status)
      OBVIOUS
    <3>2. /\ Request(b) /\ b.at = "idle" /\ b.actor = c.actor /\ b.plan = Nothing
          /\ b.shown = c.shown /\ b.seen = c.seen
      BY <1>3, <3>1, DoneParts
    <3>3. CallOK(b)'
      BY <1>3, <3>2, IdleParts DEF CallOK, Place, Reads
    <3>4. call'[s] = b
      BY <1>2, <1>4, <2>2, <3>1
    <3> QED
      BY <3>3, <3>4 DEF CallOK
  <2> QED
    BY <2>1, <2>2
<1>6. ASSUME NEW t \in Session, t # s
      PROVE  CallOK(call[t])'
  <2>1. PICK d : d = call[t]
    OBVIOUS
  <2>2. PICK b : b = Witness(d, plan, {a \in 1..Len(articles') : articles'[a].status = "published"})
    OBVIOUS
  <2>3. CallOK(d)
    BY <2>1, CallParts
  <2>4. CallOK(b)'
    BY <1>1, <2>2, <2>3, CommitKeepsOthers
  <2>5. call'[t] = b
    BY <1>4, <1>6, <2>1, <2>2
  <2> QED
    BY <2>4, <2>5 DEF CallOK
<1>7. DOMAIN call' = Session
  BY <1>4
<1> QED
  BY <1>5, <1>6, <1>7 DEF CallInv

LEMMA CommitKeeps ==
    ASSUME IInv, NEW s \in Session, Commit(s)
    PROVE  IInv'
<1>1. PICK plan : plan = call[s].plan
  OBVIOUS
<1>2. raced' \subseteq Ticket
  <2>1. WriteOK(plan, call[s].overtaken)
    BY <1>1 DEF IInv, CallInv, CallOK, Commit
  <2>2. plan.op = "mark" => plan.row.ticket \in Ticket
    BY <2>1 DEF WriteOK, MarksOK
  <2>3. raced' = raced \/ (plan.op = "mark" /\ raced' \subseteq raced \cup {plan.row.ticket})
    BY <1>1 DEF Commit
  <2> QED
    BY <2>2, <2>3 DEF IInv, DataType
<1>3. parent' = parent /\ resolved' = resolved
  BY DEF Commit
<1>4. /\ articles' \in Seq(RowType) /\ excused' \subseteq 1..Len(articles') /\ SubcategoryFits'
  BY <1>1, CommitArticles
<1>5. /\ lastLink' \in Nat /\ LinkKeys'
      /\ links' \subseteq [id : 1..lastLink', ticket : Ticket, article : 1..Len(articles'),
                           solution : BOOLEAN]
  BY <1>1, CommitLinks
<1>6. DataType'
  BY <1>2, <1>3, <1>4, <1>5 DEF DataType, IInv
<1> QED
  BY <1>4, <1>5, <1>6, CommitKeepsOneMarked, CommitKeepsCalls DEF IInv

LEMMA NextInv ==
    ASSUME IInv, [Next]_vars
    PROVE  IInv'
<1>1. ASSUME NEW s \in Session, Write(s) PROVE IInv'
  BY <1>1, WriteRoutesKeep, UnmarkOthersKeeps, CommitKeeps, ServerErrorKeeps, RefreshKeeps DEF Write
<1>2. ASSUME NEW s \in Session, Read(s) PROVE IInv'
  BY <1>2, ReadRoutesKeep, ReadOnKeeps DEF Read
<1>3. CASE UNCHANGED vars
  <2>1. UNCHANGED tables /\ call' = call /\ resolved' = resolved
    BY <1>3 DEF vars, tables
  <2>2. CallInv'
    BY <2>1, SameTables DEF IInv, CallInv, CallOK
  <2> QED
    BY <2>1, <2>2 DEF IInv, DataType, LinkKeys, OneMarked, SubcategoryFits, Ids, tables
<1> QED
  BY <1>1, <1>2, <1>3, ResolveKeeps, MoveKeeps DEF Next

--------------------------------------------------------------------------
(* The theorems *)

\* What every state satisfies: a request that nobody overtook still has its reason to write,
\* and a reading one knows all that has been published while it runs.
THEOREM InductiveInvariant == Spec => []IInv
<1>1. Init => IInv
  BY InitInv
<1>2. IInv /\ [Next]_vars => IInv'
  BY NextInv
<1> QED
  BY <1>1, <1>2, PTL DEF Spec

\* The tables and the requests keep their types.
THEOREM TypeCorrect == Spec => []TypeOK
BY InductiveInvariant, InvTypes, PTL

\* set_resolution leaves one solution per ticket, except after two marks that overlapped.
THEOREM OneSolution == Spec => []SingleSolution
BY InductiveInvariant, InvSingle, PTL

\* No reading route shows a requester an article that was a draft while the request ran.
THEOREM DraftsStayHidden == Spec => []DraftsHidden
BY InductiveInvariant, InvDrafts, PTL

\* create_article and update_article keep subcategory and category together, except after
\* two edits that overlapped or a subcategory that was moved.
THEOREM SubcategoryStaysFit == Spec => []SubcategoryFits
<1>1. IInv => SubcategoryFits
  BY DEF IInv
<1> QED
  BY <1>1, InductiveInvariant, PTL

=============================================================================
