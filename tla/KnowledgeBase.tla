---------------------------- MODULE KnowledgeBase ----------------------------
(***************************************************************************)
(* The articles of the knowledge base and their links to tickets.  Staff   *)
(* write articles, draft or published, link them to tickets and mark one   *)
(* link as the solution; requesters list, search and get suggestions, of   *)
(* published articles only.  A request reads in one or two statements and  *)
(* commits in a later step what it decided on what it had read.            *)
(*                                                                         *)
(* Operators named as the services say what they read and decide; actions  *)
(* named as the routes add who may call and the status of each exception.  *)
(* The text of titles and contents is not told apart: a search or a match  *)
(* by words may find any subset of the articles it looks through.          *)
(***************************************************************************)
EXTENDS Integers, Sequences, FiniteSets

CONSTANTS Session,       \* request handlers that run at the same time
          Ticket, Category, Subcategory,
          CategoryOf,    \* ticket -> its category
          Library,       \* the articles there are before the first request
          Linked,        \* the links there are before the first request
          Parent,        \* subcategory -> its category, before the first request
          MaxCalls,      \* bound: requests in a behaviour
          None           \* SQL NULL, no exception

VARIABLES articles,  \* the rows, by article id; they are never deleted
          parent,    \* subcategory -> its category
          links,     \* the rows of ticketarticle
          lastLink,  \* the last id drawn for a link
          resolved,  \* tickets with resolved_at set
          call,      \* session -> its request
          calls,     \* requests so far (bounded by MaxCalls)
          raced,     \* ghost: tickets whose last mark was overtaken by another mark
          excused    \* ghost: articles validated on what had changed by the commit

vars == <<articles, parent, links, lastLink, resolved, call, calls, raced, excused>>

Status == {"draft", "published"}
Article(status, category, sub) == [status |-> status, category |-> category, sub |-> sub]

\* What the services raise.
Error == {"CategoryNotFound", "SubcategoryMismatch", "ArticleNotFound", "TicketNotFound",
          "DuplicateLink", "LinkNotFound", "TicketNotYetResolved"}

ASSUME LibraryAssumption ==
  /\ CategoryOf \in [Ticket -> Category] /\ Parent \in [Subcategory -> Category]
  /\ Library \in Seq([status : Status, category : Category, sub : Subcategory \cup {None}])
  /\ None \notin Subcategory \cup Category \cup Status \cup {"unset"} \cup Error
  /\ \A a \in 1..Len(Library) :
       Library[a].sub # None => Parent[Library[a].sub] = Library[a].category
  /\ IsFiniteSet(Linked)
  /\ Linked \subseteq [id : 1..Cardinality(Linked), ticket : Ticket,
                      article : 1..Len(Library), solution : {FALSE}]
  /\ \A l, k \in Linked : l.id = k.id \/ (l.ticket = k.ticket /\ l.article = k.article) => l = k
  /\ MaxCalls \in Nat

Ids == 1..Len(articles)
Published == {a \in Ids : articles[a].status = "published"}

\* Who asks: staff, the requester of the tickets, or another requester.
Actor == {"staff", "owner", "other"}
Visible(actor) == IF actor = "staff" THEN Ids ELSE Published

(***************************************************************************)
(* What a service decides: an exception, or what to write at the commit.   *)
(***************************************************************************)
Nothing == [error |-> None, op |-> "none", id |-> 0, row |-> None,
            change |-> <<>>, marks |-> <<>>]
Raise(error) == [Nothing EXCEPT !.error = error]

\* article_service._validate_category
_category(category, sub) ==
  IF category \notin Category \/ sub \notin Subcategory \cup {None} THEN "CategoryNotFound"
  ELSE IF sub # None /\ parent[sub] # category THEN "SubcategoryMismatch"
  ELSE None

create_article(row) ==
  IF _category(row.category, row.sub) # None THEN Raise(_category(row.category, row.sub))
  ELSE [Nothing EXCEPT !.op = "create", !.row = row]

\* Of the columns that are set, those that differ from what was loaded are written.
Differing(data, row) ==
  [column \in {c \in DOMAIN row : data[c] \notin {"unset", row[c]}} |-> data[column]]

Given(value) == value \notin {"unset", None}
Final(given, stored) == IF Given(given) THEN given ELSE stored

\* Fault: the fields that were not sent are written too, as NULL.
update_article_dump(id, data) ==
  IF id \notin Ids THEN Raise("ArticleNotFound")
  ELSE [Nothing EXCEPT !.op = "edit", !.id = id,
                       !.change = [c \in DOMAIN data |-> IF data[c] = "unset" THEN None ELSE data[c]]]

\* Fault: a new category is not checked against the subcategory the article has.
update_article_partial(id, data) ==
  IF id \notin Ids THEN Raise("ArticleNotFound")
  ELSE LET error == _category(Final(data.category, articles[id].category), Final(data.sub, None))
       IN IF (Given(data.category) \/ Given(data.sub)) /\ error # None THEN Raise(error)
          ELSE [Nothing EXCEPT !.op = "edit", !.id = id, !.change = Differing(data, articles[id])]

\* A subcategory set to NULL counts as not given for the validation.
update_article(id, data) ==
  IF id \notin Ids THEN Raise("ArticleNotFound")
  ELSE LET row   == articles[id]
           error == _category(Final(data.category, row.category), Final(data.sub, row.sub))
       IN IF (Given(data.category) \/ Given(data.sub)) /\ error # None THEN Raise(error)
          ELSE [Nothing EXCEPT !.op = "edit", !.id = id, !.change = Differing(data, row)]

\* _check_ticket_visibility: a ticket of somebody else does not exist.
Missing(ticket, actor) == ticket \notin Ticket \/ actor = "other"

LinksOf(ticket) == {l \in links : l.ticket = ticket}
LinkOf(ticket, article) == {l \in LinksOf(ticket) : l.article = article}

link_article(ticket, article) ==
  IF ticket \notin Ticket THEN Raise("TicketNotFound")
  ELSE IF article \notin Ids THEN Raise("ArticleNotFound")
  ELSE IF LinkOf(ticket, article) # {} THEN Raise("DuplicateLink")
  ELSE [Nothing EXCEPT !.op = "link",
                       !.row = [ticket |-> ticket, article |-> article, solution |-> FALSE]]

\* The link, and whether it changes; the other links are read after it.
set_resolution(ticket, article, is_resolution) ==
  LET found == LinkOf(ticket, article)
      link  == CHOOSE l \in found : TRUE
  IN IF found = {} THEN Raise("LinkNotFound")
     ELSE IF is_resolution /\ ticket \notin resolved THEN Raise("TicketNotYetResolved")
     ELSE [Nothing EXCEPT
             !.op = IF is_resolution THEN "mark" ELSE "unmark", !.id = link.id, !.row = link,
             !.marks = [id \in {l.id : l \in {k \in found : k.solution # is_resolution}}
                          |-> is_resolution]]

unlink_article(ticket, article) ==
  LET found == LinkOf(ticket, article)
  IN IF found = {} THEN Raise("LinkNotFound")
     ELSE [Nothing EXCEPT !.op = "unlink", !.id = (CHOOSE l \in found : TRUE).id]

(***************************************************************************)
(* Requests.                                                               *)
(***************************************************************************)
Idle == [at |-> "idle", actor |-> "staff", plan |-> Nothing, status |-> 0,
         found |-> {}, shown |-> {}, seen |-> {}, overtaken |-> FALSE]

Init ==
  /\ articles = Library /\ parent = Parent
  /\ links = Linked /\ lastLink = Cardinality(Linked) /\ resolved = {}
  /\ call = [s \in Session |-> Idle] /\ calls = 0
  /\ raced = {} /\ excused = {}

\* The request is answered.
Done(c, status) ==
  [c EXCEPT !.at = "idle", !.status = status, !.plan = Nothing, !.found = {}, !.overtaken = FALSE]

Receive(s) ==
  /\ call[s].at = "idle" /\ calls < MaxCalls
  /\ calls' = calls + 1
  /\ UNCHANGED <<articles, parent, links, lastLink, resolved, raced, excused>>

\* A writing route: staff only, the exceptions it maps, the commit still to come.
Serve(s, plan, caught, success) ==
  /\ Receive(s)
  /\ \E actor \in Actor : call' = [call EXCEPT ![s] =
       IF actor # "staff" THEN [Idle EXCEPT !.actor = actor, !.status = 403]
       ELSE IF plan.error # None THEN [Idle EXCEPT !.status = caught[plan.error]]
       ELSE [Idle EXCEPT !.at = IF plan.op = "mark" THEN "found" ELSE "checked",
                         !.plan = plan, !.status = success]]

add_article(s) ==
  \E status \in Status, category \in Category \cup {0}, sub \in Subcategory \cup {None, 0} :
    Serve(s, create_article(Article(status, category, sub)),
          [CategoryNotFound |-> 422, SubcategoryMismatch |-> 422], 201)

edit_article(s) ==
  \E id \in Ids \cup {0}, status \in Status \cup {"unset"},
     category \in Category \cup {"unset"}, sub \in Subcategory \cup {None, "unset"} :
    Serve(s, update_article(id, Article(status, category, sub)),
          [ArticleNotFound |-> 404, CategoryNotFound |-> 422, SubcategoryMismatch |-> 422], 200)

add_ticket_article(s) == \E ticket \in Ticket \cup {0}, article \in Ids \cup {0} :
  Serve(s, link_article(ticket, article),
        [TicketNotFound |-> 404, ArticleNotFound |-> 422, DuplicateLink |-> 409], 201)

edit_ticket_article(s) ==
  \E ticket \in Ticket, article \in Ids, is_resolution \in BOOLEAN :
    Serve(s, set_resolution(ticket, article, is_resolution),
          [LinkNotFound |-> 404, TicketNotYetResolved |-> 422], 200)

remove_ticket_article(s) == \E ticket \in Ticket, article \in Ids :
  Serve(s, unlink_article(ticket, article), [LinkNotFound |-> 404], 204)

\* Fault: marks the link and leaves the other links as they are.
UnmarkNoOther(s) ==
  /\ call[s].at = "found"
  /\ call' = [call EXCEPT ![s].at = "checked"]
  /\ UNCHANGED <<articles, parent, links, lastLink, resolved, calls, raced, excused>>

\* set_resolution goes on: the other links that are marked now will be unmarked.
UnmarkOthers(s) ==
  /\ call[s].at = "found"
  /\ LET plan == call[s].plan
         others == {l.id : l \in {k \in LinksOf(plan.row.ticket) : k.solution /\ k.id # plan.id}}
     IN call' = [call EXCEPT ![s].at = "checked",
          ![s].plan.marks = [id \in DOMAIN @ \cup others |-> id \notin others]]
  /\ UNCHANGED <<articles, parent, links, lastLink, resolved, calls, raced, excused>>

(***************************************************************************)
(* Reading routes, open to every user.  seen: what has been published at   *)
(* some time since the request began.                                      *)
(***************************************************************************)
Answer(actor, status, shown) ==
  [Idle EXCEPT !.actor = actor, !.status = status, !.shown = shown, !.seen = Published]

Reading(actor, at, found) ==
  [Answer(actor, 200, {}) EXCEPT !.at = at, !.found = found]

get_articles(s) ==
  /\ Receive(s)
  /\ \E actor \in Actor, category \in Category \cup {None} :
       call' = [call EXCEPT ![s] = Answer(actor, 200,
         {a \in Visible(actor) : category \in {None, articles[a].category}})]

read_article(s) ==
  /\ Receive(s)
  /\ \E actor \in Actor, id \in Ids \cup {0} :
       call' = [call EXCEPT ![s] =
         IF id \in Visible(actor) THEN Answer(actor, 200, {id}) ELSE Answer(actor, 404, {})]

\* Fault: the search does not look at the status.
search_articles_all(actor) == SUBSET Ids

\* The ids that match, by relevance and page; the rows are read after them.
search_articles(actor) == SUBSET Visible(actor)

search_knowledge_base(s) ==
  /\ Receive(s)
  /\ \E actor \in Actor : \E found \in search_articles(actor) :
       call' = [call EXCEPT ![s] = Reading(actor, "searched", found)]

\* The links of the ticket; for a requester the status of each is read after them.
read_ticket_articles(s) ==
  /\ Receive(s)
  /\ \E actor \in Actor, ticket \in Ticket \cup {0} :
       LET linked == {l.article : l \in LinksOf(ticket)}
       IN call' = [call EXCEPT ![s] =
            IF Missing(ticket, actor) THEN Answer(actor, 404, {})
            ELSE IF actor = "staff" THEN Answer(actor, 200, linked)
            ELSE Reading(actor, "listed", linked)]

\* Published articles of the ticket's category: those that share a word with its title,
\* or, when there is none, any.
Suggestible(category) == {a \in Published : articles[a].category = category}

read_article_suggestions(s) ==
  /\ Receive(s)
  /\ \E actor \in Actor, ticket \in Ticket \cup {0} :
       IF Missing(ticket, actor)
       THEN call' = [call EXCEPT ![s] = Answer(actor, 404, {})]
       ELSE \E ranked \in SUBSET Suggestible(CategoryOf[ticket]) :
              call' = [call EXCEPT ![s] =
                IF ranked # {} THEN Answer(actor, 200, ranked)
                ELSE Reading(actor, "unmatched", {CategoryOf[ticket]})]

\* The second statement of a reading request.
Found(c) ==
  CASE c.at = "searched"  -> c.found
    [] c.at = "listed"    -> c.found \cap Published
    [] c.at = "unmatched" -> UNION {Suggestible(category) : category \in c.found}

ReadOn(s) ==
  /\ call[s].at \in {"searched", "listed", "unmatched"}
  /\ call' = [call EXCEPT ![s] = [Done(@, 200) EXCEPT !.shown = Found(call[s])]]
  /\ UNCHANGED <<articles, parent, links, lastLink, resolved, calls, raced, excused>>

(***************************************************************************)
(* The end of a write.                                                     *)
(***************************************************************************)
LinkIds == {l.id : l \in links}

\* The unique index on (ticket, article), or an UPDATE of a row that has gone.
Refused(plan) ==
  \/ plan.op = "link" /\ LinkOf(plan.row.ticket, plan.row.article) # {}
  \/ DOMAIN plan.marks \ LinkIds # {}

ServerError(s) ==
  /\ call[s].at = "checked" /\ Refused(call[s].plan)
  /\ call' = [call EXCEPT ![s] = Done(@, 500)]
  /\ UNCHANGED <<articles, parent, links, lastLink, resolved, calls, raced, excused>>

ArticlesAfter(plan) ==
  CASE plan.op = "create" -> Append(articles, plan.row)
    [] plan.op = "edit"   -> [articles EXCEPT ![plan.id] =
         [c \in DOMAIN @ |-> IF c \in DOMAIN plan.change THEN plan.change[c] ELSE @[c]]]
    [] OTHER -> articles

LinksAfter(plan) ==
  CASE plan.op = "link"   -> links \cup
         {[id |-> lastLink + 1, ticket |-> plan.row.ticket, article |-> plan.row.article,
           solution |-> plan.row.solution]}
    [] plan.op = "unlink" -> {l \in links : l.id # plan.id}
    [] OTHER -> {[l EXCEPT !.solution = IF l.id \in DOMAIN plan.marks
                                        THEN plan.marks[l.id] ELSE @] : l \in links}

\* The plans that were made on what this write changes.
Overtakes(plan, other) ==
  \/ plan.op = "mark" /\ other.op = "mark" /\ plan.row.ticket = other.row.ticket
  \/ plan.op = "edit" /\ other.op = "edit" /\ plan.id = other.id

\* The other requests, after this commit.
Witness(c, plan, published) ==
  IF c.at = "idle" THEN c
  ELSE [c EXCEPT !.overtaken = @ \/ Overtakes(plan, c.plan), !.seen = @ \cup published]

Commit(s) == LET plan == call[s].plan IN
  /\ call[s].at = "checked" /\ ~Refused(plan)
  /\ articles' = ArticlesAfter(plan)
  /\ links' = LinksAfter(plan)
  /\ lastLink' = IF plan.op = "link" THEN lastLink + 1 ELSE lastLink
  /\ raced' = IF plan.op # "mark" THEN raced
              ELSE IF call[s].overtaken THEN raced \cup {plan.row.ticket}
              ELSE raced \ {plan.row.ticket}
  /\ excused' = IF plan.op \in {"create", "edit"} /\ call[s].overtaken
                THEN excused \cup {IF plan.op = "create" THEN Len(articles) + 1 ELSE plan.id}
                ELSE excused
  /\ call' = [t \in Session |->
       IF t = s
       THEN IF plan.op \in {"link", "mark", "unmark"}
            THEN [call[s] EXCEPT !.at = "stored", !.overtaken = FALSE,
                                 !.plan.id = IF plan.op = "link" THEN lastLink' ELSE @]
            ELSE Done(call[s], call[s].status)
       ELSE Witness(call[t], plan, {a \in 1..Len(articles') : articles'[a].status = "published"})]
  /\ UNCHANGED <<parent, resolved, calls>>

\* The link is loaded again for the answer; somebody may have removed it.
Refresh(s) ==
  /\ call[s].at = "stored"
  /\ call' = [call EXCEPT ![s] = Done(@, IF @.plan.id \in LinkIds THEN @.status ELSE 500)]
  /\ UNCHANGED <<articles, parent, links, lastLink, resolved, calls, raced, excused>>

(***************************************************************************)
(* What others do meanwhile: a ticket is resolved, which sets resolved_at  *)
(* for good, and a subcategory is moved to another category.               *)
(***************************************************************************)
ResolveTicket(ticket) ==
  /\ ticket \notin resolved
  /\ resolved' = resolved \cup {ticket}
  /\ UNCHANGED <<articles, parent, links, lastLink, call, calls, raced, excused>>

update_subcategory(sub, category) ==
  /\ parent[sub] # category /\ calls < MaxCalls
  /\ parent' = [parent EXCEPT ![sub] = category]
  /\ calls' = calls + 1
  /\ excused' = excused \cup {a \in Ids : articles[a].sub = sub}
  /\ call' = [s \in Session |->
       [call[s] EXCEPT !.overtaken = @ \/ call[s].plan.op \in {"create", "edit"}]]
  /\ UNCHANGED <<articles, links, lastLink, resolved, raced>>

Write(s) ==
  \/ add_article(s) \/ edit_article(s) \/ add_ticket_article(s) \/ edit_ticket_article(s)
  \/ remove_ticket_article(s) \/ UnmarkOthers(s)
  \/ Commit(s) \/ ServerError(s) \/ Refresh(s)

Read(s) ==
  \/ get_articles(s) \/ read_article(s) \/ search_knowledge_base(s)
  \/ read_ticket_articles(s) \/ read_article_suggestions(s) \/ ReadOn(s)

Next ==
  \/ \E s \in Session : Write(s) \/ Read(s)
  \/ \E ticket \in Ticket : ResolveTicket(ticket)
  \/ \E sub \in Subcategory, category \in Category : update_subcategory(sub, category)

Spec == Init /\ [][Next]_vars

(***************************************************************************)
(* Properties                                                              *)
(***************************************************************************)
\* Types: rows have their columns, links one id each, a request is at one of its places.
TypeOK ==
  /\ \A a \in Ids : /\ articles[a].status \in Status /\ articles[a].category \in Category
                    /\ articles[a].sub \in Subcategory \cup {None}
  /\ parent \in [Subcategory -> Category]
  /\ \A l \in links : /\ l.id \in 1..lastLink /\ l.ticket \in Ticket /\ l.article \in Ids
                      /\ l.solution \in BOOLEAN
  /\ \A l, k \in links : l.id = k.id => l = k
  /\ resolved \subseteq Ticket /\ raced \subseteq Ticket /\ excused \subseteq Ids
  /\ \A s \in Session :
       call[s].at \in {"idle", "checked", "found", "stored", "searched", "listed", "unmatched"}

\* set_resolution promises one solution article per ticket.  Two are marked only after two
\* marks overlapped, each reading before the other committed, and the next mark that runs
\* by itself leaves one again.
SingleSolution ==
  \A ticket \in Ticket \ raced :
    Cardinality({l \in LinksOf(ticket) : l.solution}) <= 1

\* A list, a search, a suggestion or a single read never shows a requester an article that
\* was a draft all the time, although the status is checked in one statement and the
\* answer made in another.
DraftsHidden ==
  \A s \in Session : call[s].actor # "staff" => call[s].shown \subseteq call[s].seen

\* The subcategory of an article belongs to its category, whatever parts of the two are
\* edited in whatever order; except after two edits of one article overlapped or the
\* subcategory itself was moved.
SubcategoryFits ==
  \A a \in Ids \ excused :
    articles[a].sub # None => parent[articles[a].sub] = articles[a].category
==============================================================================
