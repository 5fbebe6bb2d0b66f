------------------------------ MODULE MCReports ------------------------------
(* Intake and Reports with two users, two queues, and a catalog of one     *)
(* item: from a desk without tickets and three sets of rules, and from     *)
(* desks with tickets of several days.                                     *)
EXTENDS Reports, TLC

CONSTANTS ana, bia, caio, suporte, redes, rede, acesso, vpn

Rule(order, active, category, keyword, outside, priority, team, level) ==
  [order |-> order, active |-> active, category |-> category, keyword |-> keyword,
   outside |-> outside, priority |-> priority, team |-> team, level |-> level]

\* To the other queue; up when nobody is there; a keyword that moves it back.
ToRedes == Rule(1, TRUE, None, FALSE, FALSE, None, redes, None)
AfterHours == Rule(1, TRUE, None, FALSE, TRUE, "alta", None, "n2")
Back == Rule(2, TRUE, rede, TRUE, FALSE, "baixa", suporte, None)

Item == [category |-> rede, sub |-> vpn, active |-> TRUE, approval |-> FALSE]
Question(required, kind) == [item |-> 4, required |-> required, kind |-> kind]

\* spent: how many requests less are followed from this desk.
Desk(rules, list, spent) ==
  [rows |-> [rule |-> rules, item |-> (4 :> Item), field |-> (5 :> Question(TRUE, "number"))],
   parent |-> (vpn :> rede), tickets |-> list, today |-> 3, calls |-> spent]

Ticket(team, priority, status, created, resolved, assignee, verdict) ==
  [requester |-> bia, category |-> rede, keyword |-> FALSE, priority |-> priority, team |-> team,
   level |-> "n1", status |-> status, item |-> None, created |-> created, resolved |-> resolved,
   assignee |-> assignee, verdict |-> verdict]
Waiting(team, day) == Ticket(team, "media", "aberto", day, None, None, "running")
Done(team, priority, from, to, assignee, verdict) ==
  Ticket(team, priority, "resolvido", from, to, assignee, verdict)

Stocks ==
  {Desk(<<ToRedes, AfterHours>>, <<>>, 0), Desk(<<AfterHours, ToRedes, Back>>, <<>>, 1)}
    \cup {Desk(<<>>, <<Waiting(None, day), Waiting(suporte, 2),
                       Done(suporte, "media", 0, 2, ana, "breached"),
                       Done(redes, "baixa", 1, 1, None, "met")>>, 1) : day \in {1, 3}}

NewRules == {Rule(0, TRUE, None, FALSE, TRUE, "alta", None, None),
             Rule(1, FALSE, 0, FALSE, FALSE, None, suporte, None)}
NewItems == {[category |-> rede, sub |-> vpn, active |-> FALSE, approval |-> TRUE]}
NewFields == {Question(FALSE, "text")}

Data(requester, category, sub, keyword, priority) ==
  [requester |-> requester, category |-> category, sub |-> sub, keyword |-> keyword,
   priority |-> priority]
NewTickets == {Data(None, rede, vpn, TRUE, None), Data(bia, rede, None, FALSE, "alta"),
               Data(caio, 0, None, FALSE, None)}
Forms == {[requester |-> requester, priority |-> None, given |-> given] :
            requester \in {None, ana}, given \in {<<>>, (5 :> "number"), (5 :> "word")}}

Defaults == [category \in {rede, acesso} |-> [priority |-> "media", team |-> suporte]]
Hours == [day \in 0..LastDay |-> IF day = 3 THEN {redes} ELSE {suporte}]

At(day, shift) == [day |-> day, shift |-> shift]
Periods == {[from |-> None, to |-> None], [from |-> At(0, 1), to |-> At(2, 0)],
            [from |-> At(1, -1), to |-> At(3, -1)]}
Anything == [statuses |-> {}, team |-> None, level |-> None, from |-> None, to |-> None, sla |-> None]
Filters == {Anything, [Anything EXCEPT !.statuses = {"aberto"}, !.level = "n1", !.from = 1, !.to = 2],
            [Anything EXCEPT !.sla = "met", !.team = redes]}
Parts == {[skip |-> 1, limit |-> 2], [skip |-> -1, limit |-> 2], [skip |-> 0, limit |-> -1]}

Alike == Permutations(Session)
=============================================================================
