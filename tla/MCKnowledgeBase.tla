-------------------------- MODULE MCKnowledgeBase --------------------------
(* KnowledgeBase with one ticket, two categories and one subcategory, and  *)
(* two articles linked to it: a published one of the subcategory, a draft. *)
EXTENDS KnowledgeBase

CONSTANTS rede, acesso, vpn, t1

Shelf == <<Article("published", rede, vpn), Article("draft", rede, None)>>
Attached == {[id |-> a, ticket |-> t1, article |-> a, solution |-> FALSE] : a \in 1..2}
Tickets == [ticket \in Ticket |-> rede]
Tree == [sub \in Subcategory |-> rede]

=============================================================================
