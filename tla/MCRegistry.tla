---------------------------- MODULE MCRegistry ----------------------------
(* Registry with a desk as it is after its first day: one team, one        *)
(* technician and the inactive system user, a category, two assets that    *)
(* may depend on each other, and one ticket that is linked to the first.   *)
EXTENDS Registry

CONSTANTS suporte, redes, ana, bia, sistema, sn1, alta, depende

Row(pk, key, role) == [pk |-> <<pk>>, key |-> key, role |-> role]

FirstDay == [table \in Table |->
  CASE table = "team"        -> {Row(1, <<suporte>>, None)}
    [] table = "user"        -> {Row(2, <<ana>>, "tecnico"), Row(3, <<sistema>>, "sistema")}
    [] table = "asset"       -> {Row(4, <<sn1>>, None), Row(5, <<None>>, None)}
    [] table = "category"    -> {Row(6, <<suporte>>, None)}
    [] table = "ticketasset" -> {Row(7, <<1, 4>>, None)}
    [] OTHER                 -> {}]

===========================================================================
