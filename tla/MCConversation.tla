--------------------------- MODULE MCConversation ---------------------------
(* Conversation with one ticket and mentions of nobody, of one user, of    *)
(* two, of one twice, and of a user who is not active.                     *)
EXTENDS Conversation, TLC

CONSTANTS ana, bia, sistema

Lists == {<<>>, <<ana>>, <<ana, bia>>, <<ana, ana>>, <<ana, sistema>>}
\* Sessions and runners are interchangeable.
Sym == Permutations(Session) \cup Permutations(Runner)
==============================================================================
